---- MODULE Spec2Model ----
(***************************************************************************)
(* Verification model of the rendering-resource wrappers of NazaraEngine:  *)
(*   - GL::Shader            (OpenGLRenderer/Wrapper/Shader.inl)           *)
(*   - VertexDeclaration     (Utility/VertexDeclaration.inl)               *)
(*   - Vk::Image             (second half of Renderer/RenderBuffer.inl)    *)
(*   - Buffer / VertexBuffer (Utility/Buffer.inl, NzVertexBuffer header)   *)
(*   - Vk::DeviceMemory      (class declaration)                           *)
(*   - Vk::Instance          (VulkanRenderer/Wrapper/Instance.hpp)         *)
(* and of two of their collaborators:                                      *)
(*   - Unicode               (ASCII implementation)                        *)
(*   - BaseWidget            (NDK BaseWidget.cpp)                          *)
(*                                                                         *)
(* Each wrapper is an independent object; it gets its own next-state       *)
(* relation and specification, the variables of the other wrappers staying *)
(* at their constructed value.                                             *)
(*                                                                         *)
(* Build assumption: assertions are compiled in (assert / NazaraAssert are *)
(* evaluated).  A failed assertion stops the program: pc becomes "aborted" *)
(* and no further operation runs.  A dereference of a null pointer that no *)
(* assertion guards is undefined behaviour; it is modelled as a choice     *)
(* between a crash ("crashed") and a continuation the code does not define *)
(* ("undefined"), neither of which the model follows any further.          *)
(***************************************************************************)
EXTENDS Integers, Sequences, FiniteSets, TLC

VARIABLES
  \* ---- GL::Shader and the GL driver it talks to
  m_shader,        \* Shader::m_shader, 0 = no handle
  m_shaderDevice,  \* Shader::m_device, 0 = null
  glLive,          \* driver: shader names currently alive
  glCompiles,      \* driver: glCompileShader calls received per live name
  glStatus,        \* driver: GL_COMPILE_STATUS of each name
  glInfoLog,       \* driver: info log of each name
  glSource,        \* driver: source or binary attached to each name
  glBadDelete,     \* driver: a glDeleteShader named a shader that is not alive
  sh_calls,        \* native calls issued by the last operation, in order
  sh_op,           \* last operation called
  sh_ret,          \* its return value
  sh_errPtr,       \* Compile: error pointer was non-null
  sh_errIn,        \* Compile: *error before the call
  sh_errOut,       \* Compile: *error after the call
  sh_life,         \* history: never / created / createFailed / destroyed
  sh_pc,           \* run / aborted / destructed
  \* ---- VertexDeclaration
  m_components,    \* VertexDeclaration::m_components
  decl_op,         \* last query
  decl_argComponent, decl_argIndex,   \* its arguments
  decl_ret,        \* FindComponent: index of the record returned, 0 = nullptr;
                   \* GetComponentCount: the count
  decl_has,        \* HasComponent: its result
  decl_pc,         \* run / aborted
  \* ---- Vk::Image and the Vulkan driver
  m_handle,        \* DeviceObject::m_handle, 0 = VK_NULL_HANDLE
  m_imageDevice,   \* DeviceObject::m_device, 0 = null
  m_lastErrorCode, \* DeviceObject::m_lastErrorCode
  vkImages,        \* driver: images alive
  vkBinds,         \* driver: vkBindImageMemory calls received per live image
  vkNullBind,      \* driver: a vkBindImageMemory named VK_NULL_HANDLE
  img_calls,       \* native calls issued by the last operation
  img_op, img_ret, \* last operation and its return value
  img_pc,          \* run / aborted / crashed / undefined
  \* ---- Buffer, its implementation and a vertex buffer over it
  m_impl,          \* Buffer::m_impl, 0 = nullptr
  m_size,          \* Buffer::m_size
  impl_storage,    \* AbstractBuffer: its storage, "none" without implementation
  impl_bytes,      \* AbstractBuffer: the bytes stored
  impl_mapped,     \* AbstractBuffer: a mapping is live
  m_startOffset,   \* NzVertexBuffer::m_startOffset
  m_endOffset,     \* NzVertexBuffer::m_endOffset
  buf_livePtrs,    \* pointers handed out by Map and not yet ended by Unmap
  buf_op,          \* last operation
  buf_argOffset, buf_argSize,   \* Map: its byte range, as passed
  buf_cycle,       \* history: none / unmapped (a mapping was ended) /
                   \* remapped (and a Map succeeded after that)
  buf_ret,         \* its result (bool, storage, void)
  buf_ptr,         \* Map: the pointer returned, 0 = nullptr
  buf_rejected,    \* the operation was refused and had no effect
  buf_forwarded,   \* the operation dereferenced m_impl
  buf_pc,          \* run / aborted / crashed / undefined
  \* ---- NzVertexBuffer (its window is m_startOffset, m_endOffset above)
  m_vertexCount,   \* NzVertexBuffer::m_vertexCount
  vb_stride,       \* stride of NzVertexBuffer::m_vertexDeclaration, 0 = none
  vb_state,        \* none / constructed / failed (the constructor failed)
  vb_argStride,    \* constructor: stride of the declaration passed
  \* ---- Vk::DeviceMemory objects and the Vulkan driver's allocations
  mem_state,       \* per object: none (not constructed) / live
  mem_handle,      \* per object: DeviceObject::m_handle, 0 = VK_NULL_HANDLE
  m_mappedPtr,     \* per object: DeviceMemory::m_mappedPtr, 0 = nullptr
  mem_lastErrorCode, \* per object: DeviceObject::m_lastErrorCode
  vkMemLive,       \* driver: allocations alive
  vkMemHostVisible, \* driver: allocations taken from a host-visible heap
  vkMemMapped,     \* driver: allocations mapped (vkMapMemory succeeded, no
                   \* vkUnmapMemory or vkFreeMemory since)
  mem_op, mem_obj, \* last operation and the object it was called on
  mem_ret,         \* its return value
  mem_pc,          \* run / aborted
  \* ---- Vk::Instance and the Vulkan loader
  m_instance,      \* Instance::m_instance, 0 = VK_NULL_HANDLE
  inst_fn,         \* the instance-level function pointers: TRUE = resolved,
                   \* FALSE = null
  inst_lastErrorCode, \* Instance::m_lastErrorCode
  m_loadedExtensions, \* Instance::m_loadedExtensions
  vkInstances,     \* loader: instances alive
  vkInstBadDestroy, \* loader: vkDestroyInstance named an instance not alive
  inst_calls,      \* native calls issued by the last operation
  inst_op, inst_ret, \* last operation and its return value
  inst_pc,         \* run / crashed / undefined / destructed
  \* ---- Unicode (ASCII implementation)
  uni_op,          \* last function called
  uni_character,   \* its argument, a code point
  uni_ret,         \* GetLowercase / GetTitlecase / GetUppercase: the result
  uni_category,    \* GetCategory: the result
  \* ---- BaseWidget tree, its canvas and the entities of the widgets
  w_state,         \* per widget: none (not constructed) / alive / deleted
  m_visible,       \* per widget: BaseWidget::m_visible
  w_registered,    \* per widget: m_canvasIndex != InvalidCanvasIndex
  m_widgetParent,  \* per widget: BaseWidget::m_widgetParent, NoWidget = nullptr
  m_children,      \* per widget: BaseWidget::m_children, the widgets it owns
  m_backgroundEntity, \* per widget: the place in m_entities of the entity
                   \* m_backgroundEntity refers to, 0 for an invalid handle
  m_entities,      \* per widget: BaseWidget::m_entities, a sequence of
                   \* [enabled: the entity is enabled, isEnabled: the flag
                   \* WidgetEntity::isEnabled]
  cv_widgets,      \* canvas: the widgets registered
  cv_keyboardOwner, \* canvas: the widget owning the keyboard, NoWidget = none
  w_op,            \* last operation
  w_arg,           \* the widget it was called on
  w_flag,          \* its bool argument (Show, Entity::Enable)
  w_ret,           \* its result
  w_wasVisible,    \* history: m_visible of that widget before the operation
  w_pc             \* run / aborted / crashed / undefined

shaderVars == <<m_shader, m_shaderDevice, glLive, glCompiles, glStatus, glInfoLog,
                glSource, glBadDelete, sh_calls, sh_op, sh_ret, sh_errPtr, sh_errIn,
                sh_errOut, sh_life, sh_pc>>

declVars == <<m_components, decl_op, decl_argComponent, decl_argIndex, decl_ret,
              decl_has, decl_pc>>

imageVars == <<m_handle, m_imageDevice, m_lastErrorCode, vkImages, vkBinds,
               vkNullBind, img_calls, img_op, img_ret, img_pc>>

bufferVars == <<m_impl, m_size, impl_storage, impl_bytes, impl_mapped, m_startOffset,
                m_endOffset, buf_livePtrs, buf_op, buf_argOffset, buf_argSize,
                buf_cycle, buf_ret, buf_ptr, buf_rejected, buf_forwarded, buf_pc>>

vertexBufferVars == <<m_vertexCount, vb_stride, vb_state, vb_argStride>>

memoryVars == <<mem_state, mem_handle, m_mappedPtr, mem_lastErrorCode, vkMemLive,
                vkMemHostVisible, vkMemMapped, mem_op, mem_obj, mem_ret, mem_pc>>

instanceVars == <<m_instance, inst_fn, inst_lastErrorCode, m_loadedExtensions,
                  vkInstances, vkInstBadDestroy, inst_calls, inst_op, inst_ret,
                  inst_pc>>

unicodeVars == <<uni_op, uni_character, uni_ret, uni_category>>

widgetVars == <<w_state, m_visible, w_registered, m_widgetParent, m_children,
                m_entities, m_backgroundEntity, cv_widgets, cv_keyboardOwner, w_op,
                w_arg, w_flag, w_ret, w_wasVisible, w_pc>>

laterVars == <<vertexBufferVars, memoryVars, instanceVars, unicodeVars, widgetVars>>

notWidget == <<shaderVars, declVars, imageVars, bufferVars, vertexBufferVars,
               memoryVars, instanceVars, unicodeVars>>

notUnicode == <<shaderVars, declVars, imageVars, bufferVars, vertexBufferVars,
                memoryVars, instanceVars, widgetVars>>

notInstance == <<shaderVars, declVars, imageVars, bufferVars, vertexBufferVars,
                 memoryVars, unicodeVars, widgetVars>>

notMemory == <<shaderVars, declVars, imageVars, bufferVars, vertexBufferVars,
               instanceVars, unicodeVars, widgetVars>>

notShader == <<declVars, imageVars, bufferVars, laterVars>>
notDecl == <<shaderVars, imageVars, bufferVars, laterVars>>
notImage == <<shaderVars, declVars, bufferVars, laterVars>>
notBuffer == <<shaderVars, declVars, imageVars, laterVars>>

vars == <<shaderVars, declVars, imageVars, bufferVars, laterVars>>

(***************************************************************************)
(* Bounds                                                                  *)
(***************************************************************************)
MaxHandle == 2
MaxLogLen == 2
MaxCompiles == 2
MaxComponents == 3
MaxComponentIndex == 1
MaxImage == 2
MaxBinds == 2
MaxBufSize == 2
MaxStride == 2
MaxVertexBytes == 2
MaxVertexLength == 1
MaxMemObjects == 2
MaxAlloc == 2
MaxMemOffset == 1
MaxInstance == 2
MaxChar == 255
MaxWidgets == 2
MaxEntities == 2
MaxEntityWidgets == 1

Handles == 1..MaxHandle
Devices == {1, 2}
ShaderTypes == {"GL_VERTEX_SHADER", "GL_FRAGMENT_SHADER"}
LogChars == {97, 98}
SeqsUpTo(S, n) == UNION {[1..k -> S] : k \in 0..n}
InfoLogs == SeqsUpTo(LogChars, MaxLogLen)
CallerStrings == {<<>>, <<120, 120, 120, 120>>}

BoolRet(b) == IF b THEN "true" ELSE "false"

GLCall(fn, handle, arg, n) == [fn |-> fn, handle |-> handle, arg |-> arg, n |-> n]

(***************************************************************************)
(* std::string::resize and the driver's glGetShaderInfoLog                 *)
(***************************************************************************)
\* std::string::resize(n): truncates, or pads with NUL characters.
ResizeString(s, n) ==
  IF n <= Len(s) THEN SubSeq(s, 1, n)
  ELSE s \o [i \in 1..(n - Len(s)) |-> 0]

\* glGetShaderInfoLog(shader, bufSize, &len, buf): copies at most bufSize - 1
\* characters of the log and terminates them with NUL; the rest of buf is kept.
WriteInfoLog(buf, log, bufSize) ==
  LET k == IF Len(log) < bufSize - 1 THEN Len(log) ELSE bufSize - 1
  IN  [i \in 1..Len(buf) |-> IF i <= k THEN log[i]
                             ELSE IF i = k + 1 THEN 0 ELSE buf[i]]

\* GL_INFO_LOG_LENGTH: 0 without a log, else the length including the NUL.
InfoLogLength(log) == IF log = <<>> THEN 0 ELSE Len(log) + 1

(***************************************************************************)
(* The GL driver: the effect of a sequence of native calls on its state.   *)
(* status and log are what the driver's compiler produces, should the      *)
(* sequence hold a glCompileShader.                                        *)
(***************************************************************************)
GLDriver == [live |-> glLive, compiles |-> glCompiles, status |-> glStatus,
             log |-> glInfoLog, source |-> glSource, bad |-> glBadDelete]

GLForget(drv, h) ==
  [drv EXCEPT !.compiles[h] = 0, !.status[h] = FALSE, !.log[h] = <<>>,
              !.source[h] = "none"]

GLApplyOne(drv, c, status, log) ==
  CASE c.fn = "glDeleteShader" ->
         IF c.handle \in drv.live
         THEN [GLForget(drv, c.handle) EXCEPT !.live = @ \ {c.handle}]
         ELSE [drv EXCEPT !.bad = TRUE]
    [] c.fn = "glCreateShader" ->
         IF c.n # 0 THEN [GLForget(drv, c.n) EXCEPT !.live = @ \cup {c.n}] ELSE drv
    [] c.fn = "glCompileShader" ->
         IF c.handle \in drv.live
         THEN [drv EXCEPT !.compiles[c.handle] = @ + 1, !.status[c.handle] = status,
                          !.log[c.handle] = log]
         ELSE drv
    [] c.fn \in {"glShaderSource", "glShaderBinary"} ->
         IF c.handle \in drv.live THEN [drv EXCEPT !.source[c.handle] = c.arg] ELSE drv
    [] OTHER -> drv

RECURSIVE GLApply(_, _, _, _)
GLApply(drv, calls, status, log) ==
  IF calls = <<>> THEN drv
  ELSE GLApply(GLApplyOne(drv, Head(calls), status, log), Tail(calls), status, log)

SetDriver(drv) ==
  /\ glLive' = drv.live
  /\ glCompiles' = drv.compiles
  /\ glStatus' = drv.status
  /\ glInfoLog' = drv.log
  /\ glSource' = drv.source
  /\ glBadDelete' = drv.bad

(***************************************************************************)
(* GL::Shader                                                              *)
(***************************************************************************)
\* Shader::Destroy: the native calls it makes and the handle it leaves.
DestroyKeepsHandle(shader) ==
  IF shader # 0
  THEN [calls |-> <<GLCall("glDeleteShader", shader, "", 0)>>, shader |-> shader]
  ELSE [calls |-> <<>>, shader |-> shader]

DestroyStep(shader) ==
  IF shader # 0
  THEN [calls |-> <<GLCall("glDeleteShader", shader, "", 0)>>, shader |-> 0]
  ELSE [calls |-> <<>>, shader |-> shader]

\* Shader::Create up to the native request: Destroy(), then glCreateShader(type).
CreateSkipsDestroy(shader, type, h) ==
  [calls |-> <<GLCall("glCreateShader", 0, type, h)>>, shader |-> h, ret |-> (h # 0)]

CreateStep(shader, type, h) ==
  LET d == DestroyStep(shader)
  IN  [calls  |-> d.calls \o <<GLCall("glCreateShader", 0, type, h)>>,
       shader |-> h,
       ret    |-> (h # 0)]

\* The names glCreateShader may return once the calls before it are made.
FreeNames(calls) == Handles \ GLApply(GLDriver, calls, FALSE, <<>>).live

\* Shader::Compile on a held handle: native calls, *error afterwards, result.
CompileAlwaysReadsLog(shader, hasErr, errIn, status, log) ==
  LET n == InfoLogLength(log)
      h == shader
  IN  [calls |-> <<GLCall("glCompileShader", h, "", 0),
                   GLCall("glGetShaderiv", h, "GL_COMPILE_STATUS", IF status THEN 1 ELSE 0)>>
                 \o (IF hasErr
                     THEN <<GLCall("glGetShaderiv", h, "GL_INFO_LOG_LENGTH", n)>>
                          \o (IF n > 0 THEN <<GLCall("glGetShaderInfoLog", h, "", n)>>
                              ELSE <<>>)
                     ELSE <<>>),
       err   |-> IF hasErr
                 THEN (IF n > 0 THEN WriteInfoLog(ResizeString(errIn, n), log, n)
                       ELSE ResizeString(errIn, n))
                 ELSE errIn,
       ret   |-> status]

CompileTwice(shader, hasErr, errIn, status, log) ==
  LET r == CompileAlwaysReadsLog(shader, hasErr /\ ~status, errIn, status, log)
  IN  [r EXCEPT !.calls = <<GLCall("glCompileShader", shader, "", 0)>> \o @]

CompileStep(shader, hasErr, errIn, status, log) ==
  LET n == InfoLogLength(log)
      h == shader
  IN  [calls |-> <<GLCall("glCompileShader", h, "", 0),
                   GLCall("glGetShaderiv", h, "GL_COMPILE_STATUS", IF status THEN 1 ELSE 0)>>
                 \o (IF ~status /\ hasErr
                     THEN <<GLCall("glGetShaderiv", h, "GL_INFO_LOG_LENGTH", n)>>
                          \o (IF n > 0 THEN <<GLCall("glGetShaderInfoLog", h, "", n)>>
                              ELSE <<>>)
                     ELSE <<>>),
       err   |-> IF ~status /\ hasErr
                 THEN (IF n > 0 THEN WriteInfoLog(ResizeString(errIn, n), log, n)
                       ELSE ResizeString(errIn, n))
                 ELSE errIn,
       ret   |-> status]

\* assert(m_shader)
AssertAlwaysPasses(shader) == TRUE

AssertShader(shader) == shader # 0

ShaderAbort(op) ==
  /\ sh_op' = op
  /\ sh_pc' = "aborted"
  /\ sh_calls' = <<>>
  /\ sh_ret' = "none"
  /\ sh_errPtr' = FALSE /\ sh_errIn' = <<>> /\ sh_errOut' = <<>>
  /\ UNCHANGED <<m_shader, m_shaderDevice, glLive, glCompiles, glStatus, glInfoLog,
                 glSource, glBadDelete, sh_life>>

NoError == sh_errPtr' = FALSE /\ sh_errIn' = <<>> /\ sh_errOut' = <<>>

Create(device, type) ==
  /\ sh_pc = "run"
  /\ \E h \in {0} \cup FreeNames(DestroyStep(m_shader).calls) :
       LET r == CreateStep(m_shader, type, h)
       IN  /\ m_shader' = r.shader
           /\ sh_calls' = r.calls
           /\ sh_ret' = BoolRet(r.ret)
           /\ SetDriver(GLApply(GLDriver, r.calls, FALSE, <<>>))
           /\ sh_life' = IF h # 0 THEN "created" ELSE "createFailed"
  /\ m_shaderDevice' = device
  /\ sh_op' = "Create"
  /\ NoError
  /\ UNCHANGED <<sh_pc, notShader>>

Destroy ==
  /\ sh_pc = "run"
  /\ LET r == DestroyStep(m_shader)
     IN  /\ m_shader' = r.shader
         /\ sh_calls' = r.calls
         /\ SetDriver(GLApply(GLDriver, r.calls, FALSE, <<>>))
  /\ sh_life' = IF sh_life \in {"created", "destroyed"} THEN "destroyed" ELSE sh_life
  /\ sh_op' = "Destroy"
  /\ sh_ret' = "void"
  /\ NoError
  /\ UNCHANGED <<m_shaderDevice, sh_pc, notShader>>

\* Shader::~Shader
Destructor ==
  /\ sh_pc = "run"
  /\ LET r == DestroyStep(m_shader)
     IN  /\ m_shader' = r.shader
         /\ sh_calls' = r.calls
         /\ SetDriver(GLApply(GLDriver, r.calls, FALSE, <<>>))
  /\ sh_life' = IF sh_life \in {"created", "destroyed"} THEN "destroyed" ELSE sh_life
  /\ sh_op' = "~Shader"
  /\ sh_ret' = "void"
  /\ sh_pc' = "destructed"
  /\ NoError
  /\ UNCHANGED <<m_shaderDevice, notShader>>

Compile(hasErr, errIn, status, log) ==
  /\ sh_pc = "run"
  /\ IF ~AssertShader(m_shader)
     THEN ShaderAbort("Compile")
     ELSE /\ (m_shader \in Handles => glCompiles[m_shader] < MaxCompiles)
          /\ LET r == CompileStep(m_shader, hasErr, errIn, status, log)
             IN  /\ sh_calls' = r.calls
                 /\ sh_ret' = BoolRet(r.ret)
                 /\ sh_errOut' = r.err
                 /\ SetDriver(GLApply(GLDriver, r.calls, status, log))
          /\ sh_errPtr' = hasErr
          /\ sh_errIn' = errIn
          /\ sh_op' = "Compile"
          /\ UNCHANGED <<m_shader, m_shaderDevice, sh_life, sh_pc>>
  /\ UNCHANGED notShader

SetSource(source) ==
  /\ sh_pc = "run"
  /\ IF ~AssertShader(m_shader)
     THEN ShaderAbort("SetSource")
     ELSE /\ sh_calls' = <<GLCall("glShaderSource", m_shader, source, 1)>>
          /\ SetDriver(GLApply(GLDriver, sh_calls', FALSE, <<>>))
          /\ sh_op' = "SetSource"
          /\ sh_ret' = "void"
          /\ NoError
          /\ UNCHANGED <<m_shader, m_shaderDevice, sh_life, sh_pc>>
  /\ UNCHANGED notShader

SetBinarySource(binary) ==
  /\ sh_pc = "run"
  /\ IF ~AssertShader(m_shader)
     THEN ShaderAbort("SetBinarySource")
     ELSE /\ sh_calls' = <<GLCall("glShaderBinary", m_shader, binary, 1)>>
          /\ SetDriver(GLApply(GLDriver, sh_calls', FALSE, <<>>))
          /\ sh_op' = "SetBinarySource"
          /\ sh_ret' = "void"
          /\ NoError
          /\ UNCHANGED <<m_shader, m_shaderDevice, sh_life, sh_pc>>
  /\ UNCHANGED notShader

\* A default-constructed Shader: no handle, no device; nothing alive in the driver.
ShaderInit ==
  /\ m_shader = 0
  /\ m_shaderDevice = 0
  /\ glLive = {}
  /\ glCompiles = [h \in Handles |-> 0]
  /\ glStatus = [h \in Handles |-> FALSE]
  /\ glInfoLog = [h \in Handles |-> <<>>]
  /\ glSource = [h \in Handles |-> "none"]
  /\ glBadDelete = FALSE
  /\ sh_calls = <<>>
  /\ sh_op = "none"
  /\ sh_ret = "none"
  /\ sh_errPtr = FALSE /\ sh_errIn = <<>> /\ sh_errOut = <<>>
  /\ sh_life = "never"
  /\ sh_pc = "run"

ShaderNext ==
  \/ \E device \in Devices, type \in ShaderTypes : Create(device, type)
  \/ Destroy
  \/ Destructor
  \/ \E hasErr \in BOOLEAN, errIn \in CallerStrings, status \in BOOLEAN, log \in InfoLogs :
       /\ (~hasErr => errIn = <<>>)
       /\ Compile(hasErr, errIn, status, log)
  \/ \E source \in {"srcA", "srcB"} : SetSource(source)
  \/ \E binary \in {"binA"} : SetBinarySource(binary)

(***************************************************************************)
(* VertexDeclaration                                                       *)
(***************************************************************************)
VertexComponents ==
  {"VertexComponent_Position", "VertexComponent_Color", "VertexComponent_Userdata"}
ComponentIndices == 0..MaxComponentIndex

\* assert(componentIndex == 0 || vertexComponent == VertexComponent_Userdata)
OnlyUserdataIndexed(vertexComponent, componentIndex) ==
  componentIndex = 0 \/ vertexComponent = "VertexComponent_Userdata"

\* The loop of FindComponent from record k on: the index of the record returned,
\* 0 for nullptr.
RECURSIVE FindLastFrom(_, _, _, _)
FindLastFrom(components, vertexComponent, componentIndex, k) ==
  IF k > Len(components) THEN 0
  ELSE LET rest == FindLastFrom(components, vertexComponent, componentIndex, k + 1)
       IN  IF rest # 0 THEN rest
           ELSE IF /\ components[k].component = vertexComponent
                   /\ components[k].componentIndex = componentIndex
                THEN k ELSE 0

RECURSIVE FindComponentFrom(_, _, _, _)
FindComponentFrom(components, vertexComponent, componentIndex, k) ==
  IF k > Len(components) THEN 0
  ELSE IF /\ components[k].component = vertexComponent
          /\ components[k].componentIndex = componentIndex
       THEN k
  ELSE FindComponentFrom(components, vertexComponent, componentIndex, k + 1)

DeclAbort(op, vertexComponent, componentIndex) ==
  /\ decl_op' = op
  /\ decl_argComponent' = vertexComponent
  /\ decl_argIndex' = componentIndex
  /\ decl_ret' = 0
  /\ decl_has' = FALSE
  /\ decl_pc' = "aborted"
  /\ UNCHANGED m_components

FindComponent(vertexComponent, componentIndex) ==
  /\ decl_pc = "run"
  /\ IF ~OnlyUserdataIndexed(vertexComponent, componentIndex)
     THEN DeclAbort("FindComponent", vertexComponent, componentIndex)
     ELSE /\ decl_ret' = FindComponentFrom(m_components, vertexComponent, componentIndex, 1)
          /\ decl_op' = "FindComponent"
          /\ decl_argComponent' = vertexComponent
          /\ decl_argIndex' = componentIndex
          /\ decl_has' = FALSE
          /\ UNCHANGED <<m_components, decl_pc>>
  /\ UNCHANGED notDecl

\* HasComponent: FindComponent(component, componentIndex) != nullptr
HasComponent(vertexComponent, componentIndex) ==
  /\ decl_pc = "run"
  /\ IF ~OnlyUserdataIndexed(vertexComponent, componentIndex)
     THEN DeclAbort("HasComponent", vertexComponent, componentIndex)
     ELSE /\ decl_has' =
               (FindComponentFrom(m_components, vertexComponent, componentIndex, 1) # 0)
          /\ decl_op' = "HasComponent"
          /\ decl_argComponent' = vertexComponent
          /\ decl_argIndex' = componentIndex
          /\ decl_ret' = 0
          /\ UNCHANGED <<m_components, decl_pc>>
  /\ UNCHANGED notDecl

ComponentCount(components) == Len(components)

GetComponentCount ==
  /\ decl_pc = "run"
  /\ decl_ret' = ComponentCount(m_components)
  /\ decl_op' = "GetComponentCount"
  /\ decl_argComponent' = "none"
  /\ decl_argIndex' = 0
  /\ decl_has' = FALSE
  /\ UNCHANGED <<m_components, decl_pc>>
  /\ UNCHANGED notDecl

\* The declarations a constructor can leave: record k lies at offset 4 * (k - 1);
\* only userdata records carry a non-zero index, and only userdata may repeat a
\* (component, index) pair.
ComponentRecords ==
  {r \in [component : VertexComponents, componentIndex : ComponentIndices] :
     OnlyUserdataIndexed(r.component, r.componentIndex)}

Declarations ==
  {[k \in 1..Len(d) |-> [component |-> d[k].component,
                         componentIndex |-> d[k].componentIndex,
                         offset |-> 4 * (k - 1)]] :
     d \in {e \in SeqsUpTo(ComponentRecords, MaxComponents) :
              \A i, j \in 1..Len(e) :
                 (i # j /\ e[i] = e[j]) => e[i].component = "VertexComponent_Userdata"}}

DeclIdle ==
  /\ decl_op = "none"
  /\ decl_argComponent = "none"
  /\ decl_argIndex = 0
  /\ decl_ret = 0
  /\ decl_has = FALSE
  /\ decl_pc = "run"

DeclInit == m_components \in Declarations /\ DeclIdle

DeclNext ==
  \/ \E c \in VertexComponents, i \in ComponentIndices : FindComponent(c, i)
  \/ \E c \in VertexComponents, i \in ComponentIndices : HasComponent(c, i)
  \/ GetComponentCount

(***************************************************************************)
(* Vk::Image.  Create, Destroy and IsValid come from the DeviceObject       *)
(* template; BindImageMemory, GetMemoryRequirements and the two helpers are *)
(* the wrapper's own.                                                      *)
(***************************************************************************)
Images == 1..MaxImage
VkDevices == {1}
VkResults == {"VK_SUCCESS", "VK_ERROR_OUT_OF_HOST_MEMORY", "VK_ERROR_OUT_OF_DEVICE_MEMORY"}
VkMemories == {1, 2}
VkOffsets == {0, 256}

VkCall(fn, device, handle, memory, offset, res) ==
  [fn |-> fn, device |-> device, handle |-> handle, memory |-> memory,
   offset |-> offset, res |-> res]

\* Image::CreateHelper: device->vkCreateImage(*device, createInfo, allocator, handle)
CreateHelper(device, res) == VkCall("vkCreateImage", device, 0, 0, 0, res)

\* Image::DestroyHelper: device->vkDestroyImage(*device, handle, allocator)
DestroyHelper(device, handle) == VkCall("vkDestroyImage", device, handle, 0, 0, "void")

\* DeviceObject::IsValid
ImageIsValid == m_handle # 0

\* DeviceObject::Create, on an image without a handle: the creation hook runs; on
\* failure the error code is stored and handle and owner stay as they were.
ImageCreate(device) ==
  /\ img_pc = "run"
  /\ m_handle = 0
  /\ \E res \in VkResults, h \in Images \ vkImages :
       /\ img_calls' = <<CreateHelper(device, res)>>
       /\ m_lastErrorCode' = res
       /\ IF res = "VK_SUCCESS"
          THEN /\ m_handle' = h
               /\ m_imageDevice' = device
               /\ vkImages' = vkImages \cup {h}
               /\ vkBinds' = [vkBinds EXCEPT ![h] = 0]
          ELSE UNCHANGED <<m_handle, m_imageDevice, vkImages, vkBinds>>
       /\ img_ret' = BoolRet(res = "VK_SUCCESS")
  /\ img_op' = "Create"
  /\ UNCHANGED <<vkNullBind, img_pc, notImage>>

\* DeviceObject::Destroy: the destruction hook runs only on a non-null handle,
\* which is then nulled.
ImageDestroy ==
  /\ img_pc = "run"
  /\ IF m_handle # 0
     THEN /\ img_calls' = <<DestroyHelper(m_imageDevice, m_handle)>>
          /\ vkImages' = vkImages \ {m_handle}
          /\ vkBinds' = [vkBinds EXCEPT ![m_handle] = 0]
          /\ m_handle' = 0
     ELSE /\ img_calls' = <<>>
          /\ UNCHANGED <<m_handle, vkImages, vkBinds>>
  /\ img_op' = "Destroy"
  /\ img_ret' = "void"
  /\ UNCHANGED <<m_imageDevice, m_lastErrorCode, vkNullBind, img_pc, notImage>>

\* The part of BindImageMemory after the native call: the stored code, the result.
BindStoresNothing(lastErrorCode, res) ==
  [lastErrorCode |-> lastErrorCode, ret |-> (res = "VK_SUCCESS")]

BindResult(lastErrorCode, res) ==
  [lastErrorCode |-> res, ret |-> (res = "VK_SUCCESS")]

\* The native calls of one BindImageMemory.
BindTwice(device, handle, memory, offset, res) ==
  <<VkCall("vkBindImageMemory", device, handle, memory, offset, res),
    VkCall("vkBindImageMemory", device, handle, memory, offset, res)>>

BindCalls(device, handle, memory, offset, res) ==
  <<VkCall("vkBindImageMemory", device, handle, memory, offset, res)>>

\* The driver's count of the binds it received.
RECURSIVE BindsAfter(_, _)
BindsAfter(binds, calls) ==
  IF calls = <<>> THEN binds
  ELSE LET c == Head(calls)
       IN  BindsAfter(IF c.fn = "vkBindImageMemory" /\ c.handle \in Images
                      THEN [binds EXCEPT ![c.handle] = @ + 1] ELSE binds,
                      Tail(calls))

\* Image::BindImageMemory.  No assertion guards it.  With a null m_device the
\* member access m_device->vkBindImageMemory is undefined behaviour: the program
\* crashes or goes on in a way the code does not define, and the model follows it
\* no further.  With a device set the call forwards m_handle as it is, null or
\* not, bound before or not.
BindImageMemory(memory, offset) ==
  /\ img_pc = "run"
  /\ m_handle \in Images => vkBinds[m_handle] < MaxBinds
  /\ IF m_imageDevice = 0
     THEN /\ img_pc' \in {"crashed", "undefined"}
          /\ img_calls' = <<>>
          /\ img_ret' = "none"
          /\ UNCHANGED <<m_lastErrorCode, vkBinds, vkNullBind>>
     ELSE \E res \in VkResults :
          LET r == BindResult(m_lastErrorCode, res)
              calls == BindCalls(m_imageDevice, m_handle, memory, offset, res)
          IN  /\ img_calls' = calls
              /\ m_lastErrorCode' = r.lastErrorCode
              /\ img_ret' = BoolRet(r.ret)
              /\ vkBinds' = BindsAfter(vkBinds, calls)
              /\ vkNullBind' = (vkNullBind \/ m_handle = 0)
              /\ UNCHANGED img_pc
  /\ img_op' = "BindImageMemory"
  /\ UNCHANGED <<m_handle, m_imageDevice, vkImages, notImage>>

\* NazaraAssert(IsValid(), "Invalid image")
AssertValidImage(valid) == valid

\* Image::GetMemoryRequirements
GetMemoryRequirements ==
  /\ img_pc = "run"
  /\ IF ~AssertValidImage(ImageIsValid)
     THEN /\ img_pc' = "aborted"
          /\ img_calls' = <<>>
          /\ img_ret' = "none"
     ELSE /\ img_calls' = <<VkCall("vkGetImageMemoryRequirements", m_imageDevice,
                                   m_handle, 0, 0, "void")>>
          /\ img_ret' = "requirements"
          /\ UNCHANGED img_pc
  /\ img_op' = "GetMemoryRequirements"
  /\ UNCHANGED <<m_handle, m_imageDevice, m_lastErrorCode, vkImages, vkBinds,
                 vkNullBind, notImage>>

ImageNext ==
  \/ \E device \in VkDevices : ImageCreate(device)
  \/ ImageDestroy
  \/ \E memory \in VkMemories, offset \in VkOffsets : BindImageMemory(memory, offset)
  \/ GetMemoryRequirements

ImageIdle ==
  /\ m_handle = 0
  /\ m_imageDevice = 0
  /\ m_lastErrorCode = "VK_SUCCESS"
  /\ vkImages = {}
  /\ vkBinds = [h \in 1..MaxImage |-> 0]
  /\ vkNullBind = FALSE
  /\ img_calls = <<>>
  /\ img_op = "none"
  /\ img_ret = "none"
  /\ img_pc = "run"

(***************************************************************************)
(* Buffer and NzVertexBuffer.  IsValid, GetStorage and HasStorage are the  *)
(* inline accessors of Buffer.inl; construction, Map, Unmap and Fill are   *)
(* defined outside the sources at hand and follow the written contract:    *)
(* a buffer without implementation rejects them, Map while mapped and      *)
(* Unmap while not mapped are contract violations, a range past the size   *)
(* fails.  A rejection is a hard stop or an error return without effect.   *)
(***************************************************************************)
Storages == {"DataStorage_Software", "DataStorage_Hardware"}
Bytes == {0, 1}
BufOffsets == 0..MaxBufSize
\* A size of 0 is the default argument of Map: the range is empty and starts
\* at offset.
BufSizes == 0..MaxBufSize

BufferCall(op, offset, size) ==
  /\ buf_op' = op
  /\ buf_argOffset' = offset
  /\ buf_argSize' = size

BufferOp(op) == BufferCall(op, 0, 0)

BufferKeeps == UNCHANGED <<m_impl, m_size, impl_storage, impl_bytes, impl_mapped,
                           m_startOffset, m_endOffset, buf_livePtrs, buf_cycle>>

\* A precondition violation: an assertion-style hard stop, or an error return.
BufferReject(op, offset, size) ==
  /\ BufferCall(op, offset, size)
  /\ buf_rejected' = TRUE
  /\ buf_forwarded' = FALSE
  /\ buf_ptr' = 0
  /\ \/ buf_pc' = "aborted" /\ buf_ret' = "none"
     \/ buf_pc' = "run" /\ buf_ret' = "false"
  /\ BufferKeeps

\* An operation refused for its arguments: an error return.
BufferFail(op, offset, size) ==
  /\ BufferCall(op, offset, size)
  /\ buf_rejected' = TRUE
  /\ buf_forwarded' = FALSE
  /\ buf_ptr' = 0
  /\ buf_ret' = "false"
  /\ UNCHANGED buf_pc
  /\ BufferKeeps

\* Buffer::IsValid: m_impl != nullptr
IsValidResult(impl) == impl # 0

IsValid ==
  /\ buf_pc = "run"
  /\ BufferOp("IsValid")
  /\ buf_ret' = BoolRet(IsValidResult(m_impl))
  /\ buf_ptr' = 0
  /\ buf_rejected' = FALSE
  /\ buf_forwarded' = FALSE
  /\ UNCHANGED buf_pc
  /\ BufferKeeps
  /\ UNCHANGED notBuffer

\* Buffer::GetStorage: m_impl->GetStorage(), with no check of m_impl.  On a null
\* m_impl the call through it is undefined behaviour.  HasStorage compares the
\* storage GetStorage returns with the one asked for.
StorageQuery(op, asked) ==
  /\ buf_pc = "run"
  /\ BufferOp(op)
  /\ buf_forwarded' = TRUE
  /\ buf_rejected' = FALSE
  /\ buf_ptr' = 0
  /\ IF m_impl = 0
     THEN buf_pc' \in {"crashed", "undefined"} /\ buf_ret' = "none"
     ELSE /\ buf_ret' = IF op = "GetStorage" THEN impl_storage
                        ELSE BoolRet(impl_storage = asked)
          /\ UNCHANGED buf_pc
  /\ BufferKeeps
  /\ UNCHANGED notBuffer

GetStorage == StorageQuery("GetStorage", "none")

\* Buffer::HasStorage: GetStorage() == storage
HasStorage(storage) == StorageQuery("HasStorage", storage)

\* Buffer construction with a storage mode, on a buffer without implementation.
BufferCreate(storage) ==
  /\ buf_pc = "run"
  /\ m_impl = 0
  /\ BufferOp("Create")
  /\ m_impl' = 1
  /\ impl_storage' = storage
  /\ impl_bytes' = [i \in 1..m_size |-> 0]
  /\ impl_mapped' = FALSE
  /\ buf_livePtrs' = {}
  /\ buf_ret' = "true"
  /\ buf_ptr' = 0
  /\ buf_rejected' = FALSE
  /\ buf_forwarded' = FALSE
  /\ UNCHANGED <<m_size, m_startOffset, m_endOffset, buf_cycle, buf_pc, notBuffer>>

\* The implementation is released; a pointer mapped from it ends with it.
BufferDestroy ==
  /\ buf_pc = "run"
  /\ BufferOp("Destroy")
  /\ m_impl' = 0
  /\ impl_storage' = "none"
  /\ impl_bytes' = <<>>
  /\ impl_mapped' = FALSE
  /\ buf_livePtrs' = {}
  /\ buf_ret' = "void"
  /\ buf_ptr' = 0
  /\ buf_rejected' = FALSE
  /\ buf_forwarded' = FALSE
  /\ UNCHANGED <<m_size, m_startOffset, m_endOffset, buf_cycle, buf_pc, notBuffer>>

\* Fill(data, offset, size): writes size bytes at offset; called as op with the
\* range (argOffset, argSize).
FillBytes(op, argOffset, argSize, data, offset) ==
  /\ buf_pc = "run"
  /\ IF m_impl = 0 THEN BufferReject(op, argOffset, argSize)
     ELSE IF offset + Len(data) > m_size THEN BufferFail(op, argOffset, argSize)
     ELSE /\ BufferCall(op, argOffset, argSize)
          /\ impl_bytes' = [i \in 1..m_size |->
                              IF i > offset /\ i <= offset + Len(data)
                              THEN data[i - offset] ELSE impl_bytes[i]]
          /\ buf_ret' = "true"
          /\ buf_ptr' = 0
          /\ buf_rejected' = FALSE
          /\ buf_forwarded' = TRUE
          /\ UNCHANGED <<m_impl, m_size, impl_storage, impl_mapped, m_startOffset,
                         m_endOffset, buf_livePtrs, buf_cycle, buf_pc>>
  /\ UNCHANGED notBuffer

Fill(data, offset) == FillBytes("Fill", offset, Len(data), data, offset)

\* Whether a Map may hand out a pointer.
MapIgnoresLiveMapping(impl, mapped) == impl # 0

MayMap(impl, mapped) == impl # 0 /\ ~mapped

\* Whether an Unmap ends a mapping.
MayUnmap(impl, mapped) == impl # 0 /\ mapped

\* Map(access, offset, size) of the byte range [offset, offset + size) of the
\* buffer, called as op with the range (argOffset, argSize); the pointer to byte
\* k of the buffer is k + 1.
MapBytes(op, argOffset, argSize, offset, size) ==
  /\ buf_pc = "run"
  /\ IF ~MayMap(m_impl, impl_mapped) THEN BufferReject(op, argOffset, argSize)
     ELSE IF offset + size > m_size THEN BufferFail(op, argOffset, argSize)
     ELSE /\ BufferCall(op, argOffset, argSize)
          /\ impl_mapped' = TRUE
          /\ buf_ptr' = offset + 1
          /\ buf_livePtrs' = buf_livePtrs \cup {offset + 1}
          /\ buf_cycle' = IF buf_cycle = "none" THEN "none" ELSE "remapped"
          /\ buf_ret' = "pointer"
          /\ buf_rejected' = FALSE
          /\ buf_forwarded' = TRUE
          /\ UNCHANGED <<m_impl, m_size, impl_storage, impl_bytes, m_startOffset,
                         m_endOffset, buf_pc>>
  /\ UNCHANGED notBuffer

Map(offset, size) == MapBytes("Map", offset, size, offset, size)

UnmapBytes(op) ==
  /\ buf_pc = "run"
  /\ IF ~MayUnmap(m_impl, impl_mapped) THEN BufferReject(op, 0, 0)
     ELSE /\ BufferOp(op)
          /\ impl_mapped' = FALSE
          /\ buf_livePtrs' = {}
          /\ buf_cycle' = IF buf_cycle = "none" THEN "unmapped" ELSE buf_cycle
          /\ buf_ptr' = 0
          /\ buf_ret' = "void"
          /\ buf_rejected' = FALSE
          /\ buf_forwarded' = TRUE
          /\ UNCHANGED <<m_impl, m_size, impl_storage, impl_bytes, m_startOffset,
                         m_endOffset, buf_pc>>
  /\ UNCHANGED notBuffer

Unmap == UnmapBytes("Unmap")

\* NzVertexBuffer::Map: a range past the window fails; otherwise the byte range,
\* moved by the window's start, is mapped from the buffer.
VertexBufferMap(offset, size) ==
  IF m_startOffset + offset + size > m_endOffset
  THEN /\ buf_pc = "run"
       /\ BufferFail("VertexBuffer::Map", offset, size)
       /\ UNCHANGED notBuffer
  ELSE MapBytes("VertexBuffer::Map", offset, size, m_startOffset + offset, size)

\* NzVertexBuffer::Fill: a range past the window fails; otherwise size bytes
\* of value byte are written to the buffer from the window's start plus offset
\* on.
VertexBufferFill(byte, offset, size) ==
  IF m_startOffset + offset + size > m_endOffset
  THEN /\ buf_pc = "run"
       /\ BufferFail("VertexBuffer::Fill", offset, size)
       /\ UNCHANGED notBuffer
  ELSE FillBytes("VertexBuffer::Fill", offset, size, [i \in 1..size |-> byte],
                 m_startOffset + offset)

\* NzVertexBuffer::Unmap: the buffer's Unmap.
VertexBufferUnmap == UnmapBytes("VertexBuffer::Unmap")

\* A buffer of m_size bytes constructed without implementation or with one of
\* either storage, and a vertex buffer over a window of it.
BufferIdle ==
  /\ m_impl = 0
  /\ m_size = MaxBufSize
  /\ impl_storage = "none"
  /\ impl_bytes = <<>>
  /\ impl_mapped = FALSE
  /\ m_startOffset = 0
  /\ m_endOffset = MaxBufSize
  /\ buf_livePtrs = {}
  /\ buf_op = "none" /\ buf_argOffset = 0 /\ buf_argSize = 0
  /\ buf_cycle = "none"
  /\ buf_ret = "none" /\ buf_ptr = 0
  /\ buf_rejected = FALSE /\ buf_forwarded = FALSE
  /\ buf_pc = "run"

BufferInit ==
  /\ m_size = MaxBufSize
  /\ \/ m_impl = 0 /\ impl_storage = "none" /\ impl_bytes = <<>>
     \/ m_impl = 1 /\ impl_storage \in Storages /\ impl_bytes = [i \in 1..m_size |-> 0]
  /\ impl_mapped = FALSE
  /\ m_startOffset \in 0..m_size
  /\ m_endOffset \in m_startOffset..m_size
  /\ buf_livePtrs = {}
  /\ buf_op = "none" /\ buf_argOffset = 0 /\ buf_argSize = 0
  /\ buf_cycle = "none"
  /\ buf_ret = "none" /\ buf_ptr = 0
  /\ buf_rejected = FALSE /\ buf_forwarded = FALSE
  /\ buf_pc = "run"

BufferNext ==
  \/ IsValid
  \/ GetStorage
  \/ \E storage \in Storages : HasStorage(storage)
  \/ \E storage \in Storages : BufferCreate(storage)
  \/ BufferDestroy
  \/ \E size \in BufSizes : \E data \in [1..size -> Bytes], offset \in BufOffsets :
       Fill(data, offset)
  \/ \E offset \in BufOffsets, size \in BufSizes : Map(offset, size)
  \/ Unmap
  \/ \E offset \in BufOffsets, size \in BufSizes : VertexBufferMap(offset, size)
  \/ VertexBufferUnmap

(***************************************************************************)
(* NzVertexBuffer: a window [m_startOffset, m_endOffset) of a buffer read  *)
(* through a declaration of a given stride.  Only its declaration is at    *)
(* hand; the constructors and the operations follow the written contract:  *)
(* the window length is a multiple of the stride, the vertex count is the  *)
(* window length over the stride, FillVertices and MapVertices translate a *)
(* vertex range into a byte range and delegate to the byte-level           *)
(* operation, a vertex range past the count fails, Fill and Map act on the *)
(* bytes of the window, SetStorage moves the bytes to an implementation of *)
(* the storage asked for, and SetVertexDeclaration replaces the            *)
(* declaration, the vertex count following its stride.                     *)
(***************************************************************************)
Strides == 1..MaxStride
VertexOffsets == 0..MaxVertexBytes
VertexLengths == 0..MaxVertexLength

\* The window can be cut into whole vertices.
WindowAlwaysFits(startOffset, endOffset, stride) == TRUE

WindowFitsStride(startOffset, endOffset, stride) ==
  (endOffset - startOffset) % stride = 0

\* m_vertexCount = (endOffset - startOffset) / stride
VertexCount(startOffset, endOffset, stride) == (endOffset - startOffset) \div stride

\* The vertex range [startVertex, startVertex + length) lies within the count.
VertexRangeFits(startVertex, length, vertexCount) ==
  startVertex + length <= vertexCount

\* NzVertexBuffer(vertexDeclaration, buffer, startOffset, endOffset)
VertexBufferConstruct(stride, startOffset, endOffset) ==
  /\ buf_pc = "run"
  /\ vb_state # "constructed"
  /\ BufferCall("VertexBuffer", startOffset, endOffset)
  /\ vb_argStride' = stride
  /\ buf_ptr' = 0
  /\ buf_forwarded' = FALSE
  /\ IF WindowFitsStride(startOffset, endOffset, stride)
     THEN /\ vb_state' = "constructed"
          /\ vb_stride' = stride
          /\ m_startOffset' = startOffset
          /\ m_endOffset' = endOffset
          /\ m_vertexCount' = VertexCount(startOffset, endOffset, stride)
          /\ buf_ret' = "void"
          /\ buf_rejected' = FALSE
     ELSE /\ vb_state' = "failed"
          /\ vb_stride' = 0
          /\ m_startOffset' = 0
          /\ m_endOffset' = 0
          /\ m_vertexCount' = 0
          /\ buf_ret' = "none"
          /\ buf_rejected' = TRUE
  /\ UNCHANGED <<m_impl, m_size, impl_storage, impl_bytes, impl_mapped,
                 buf_livePtrs, buf_cycle, buf_pc>>
  /\ UNCHANGED <<shaderVars, declVars, imageVars, memoryVars, instanceVars, unicodeVars,
                 widgetVars>>

\* NzVertexBuffer(vertexDeclaration, length, storage, usage): the vertex buffer
\* makes its own buffer of length vertices and is a view of all of it.
VertexBufferConstructLength(stride, length, storage) ==
  /\ buf_pc = "run"
  /\ vb_state # "constructed"
  /\ length * stride <= MaxVertexBytes
  /\ BufferCall("VertexBuffer(length)", 0, length)
  /\ vb_argStride' = stride
  /\ m_size' = length * stride
  /\ m_impl' = 1
  /\ impl_storage' = storage
  /\ impl_bytes' = [i \in 1..(length * stride) |-> 0]
  /\ impl_mapped' = FALSE
  /\ buf_livePtrs' = {}
  /\ vb_state' = "constructed"
  /\ vb_stride' = stride
  /\ m_startOffset' = 0
  /\ m_endOffset' = length * stride
  /\ m_vertexCount' = VertexCount(0, length * stride, stride)
  /\ buf_ret' = "void"
  /\ buf_ptr' = 0
  /\ buf_rejected' = FALSE
  /\ buf_forwarded' = FALSE
  /\ UNCHANGED <<buf_cycle, buf_pc>>
  /\ UNCHANGED <<shaderVars, declVars, imageVars, memoryVars, instanceVars, unicodeVars,
                 widgetVars>>

\* NzVertexBuffer(vertexBuffer): the copy is a view of the same buffer with the
\* same window, declaration and vertex count; it is the view followed from then on.
VertexBufferCopy ==
  /\ buf_pc = "run"
  /\ vb_state = "constructed"
  /\ BufferCall("VertexBuffer(copy)", m_startOffset, m_endOffset)
  /\ vb_argStride' = vb_stride
  /\ buf_ret' = "void"
  /\ buf_ptr' = 0
  /\ buf_rejected' = FALSE
  /\ buf_forwarded' = FALSE
  /\ UNCHANGED buf_pc
  /\ BufferKeeps
  /\ UNCHANGED <<m_vertexCount, vb_stride, vb_state>>
  /\ UNCHANGED <<shaderVars, declVars, imageVars, memoryVars, instanceVars, unicodeVars,
                 widgetVars>>

\* ~NzVertexBuffer, defaulted: the view goes whatever the state of the buffer.
\* The buffer stays, a mapping of it with it, while another reference holds
\* it; it is destroyed when the view held the last one, and a pointer mapped
\* from it ends with it.
VertexBufferRelease(last) ==
  /\ buf_pc = "run"
  /\ vb_state = "constructed"
  /\ BufferOp("~VertexBuffer")
  /\ vb_state' = "none"
  /\ vb_stride' = 0
  /\ m_startOffset' = 0
  /\ m_endOffset' = 0
  /\ m_vertexCount' = 0
  /\ IF last
     THEN /\ m_impl' = 0 /\ impl_storage' = "none" /\ impl_bytes' = <<>>
          /\ impl_mapped' = FALSE /\ buf_livePtrs' = {}
     ELSE UNCHANGED <<m_impl, impl_storage, impl_bytes, impl_mapped, buf_livePtrs>>
  /\ buf_ret' = "void"
  /\ buf_ptr' = 0
  /\ buf_rejected' = FALSE
  /\ buf_forwarded' = FALSE
  /\ vb_argStride' = 0
  /\ UNCHANGED <<m_size, buf_cycle, buf_pc>>
  /\ UNCHANGED <<shaderVars, declVars, imageVars, memoryVars, instanceVars, unicodeVars,
                 widgetVars>>

\* GetVertexCount: m_vertexCount
GetVertexCount ==
  /\ buf_pc = "run"
  /\ vb_state = "constructed"
  /\ BufferOp("GetVertexCount")
  /\ buf_ret' = m_vertexCount
  /\ buf_ptr' = 0
  /\ buf_rejected' = FALSE
  /\ buf_forwarded' = FALSE
  /\ UNCHANGED buf_pc
  /\ BufferKeeps
  /\ UNCHANGED notBuffer

\* FillVertices(data, startVertex, length): length vertices of value byte
\* written from vertex startVertex on.
FillVertices(byte, startVertex, length) ==
  /\ vb_state = "constructed"
  /\ IF ~VertexRangeFits(startVertex, length, m_vertexCount)
     THEN /\ buf_pc = "run"
          /\ BufferFail("FillVertices", startVertex, length)
          /\ UNCHANGED notBuffer
     ELSE FillBytes("FillVertices", startVertex, length,
                    [i \in 1..(length * vb_stride) |-> byte],
                    m_startOffset + startVertex * vb_stride)

\* MapVertices(access, startVertex, length)
MapVertices(startVertex, length) ==
  /\ vb_state = "constructed"
  /\ IF ~VertexRangeFits(startVertex, length, m_vertexCount)
     THEN /\ buf_pc = "run"
          /\ BufferFail("MapVertices", startVertex, length)
          /\ UNCHANGED notBuffer
     ELSE MapBytes("MapVertices", startVertex, length,
                   m_startOffset + startVertex * vb_stride, length * vb_stride)

\* SetStorage(storage): the buffer's SetStorage.  A buffer without
\* implementation rejects it; a buffer of that storage already is left alone;
\* otherwise an implementation of the storage asked for is created, which may
\* fail, the bytes are copied to it and the old implementation is released, a
\* pointer mapped from it ending with it.
SetStorage(storage, created) ==
  /\ buf_pc = "run"
  /\ vb_state = "constructed"
  /\ IF m_impl = 0 THEN BufferReject("SetStorage", 0, 0)
     ELSE IF impl_storage # storage /\ ~created THEN BufferFail("SetStorage", 0, 0)
     ELSE /\ BufferOp("SetStorage")
          /\ impl_storage' = storage
          /\ impl_mapped' = IF impl_storage = storage THEN impl_mapped ELSE FALSE
          /\ buf_livePtrs' = IF impl_storage = storage THEN buf_livePtrs ELSE {}
          /\ buf_ret' = "true"
          /\ buf_ptr' = 0
          /\ buf_rejected' = FALSE
          /\ buf_forwarded' = TRUE
          /\ UNCHANGED <<m_impl, m_size, impl_bytes, m_startOffset, m_endOffset,
                         buf_cycle, buf_pc>>
  /\ UNCHANGED notBuffer

\* SetVertexDeclaration(vertexDeclaration): the declaration is replaced and the
\* vertex count follows its stride.  The window stays a whole number of
\* vertices: a declaration whose stride does not divide it is a precondition
\* violation and replaces nothing.
SetVertexDeclaration(stride) ==
  /\ buf_pc = "run"
  /\ vb_state = "constructed"
  /\ IF WindowFitsStride(m_startOffset, m_endOffset, stride)
     THEN /\ BufferCall("SetVertexDeclaration", stride, 0)
          /\ vb_argStride' = stride
          /\ vb_stride' = stride
          /\ m_vertexCount' = VertexCount(m_startOffset, m_endOffset, stride)
          /\ buf_ret' = "void"
          /\ buf_ptr' = 0
          /\ buf_rejected' = FALSE
          /\ buf_forwarded' = FALSE
          /\ UNCHANGED buf_pc
          /\ BufferKeeps
     ELSE /\ BufferReject("SetVertexDeclaration", stride, 0)
          /\ UNCHANGED <<vb_stride, m_vertexCount, vb_argStride>>
  /\ UNCHANGED vb_state
  /\ UNCHANGED <<shaderVars, declVars, imageVars, memoryVars, instanceVars, unicodeVars,
                 widgetVars>>

\* No vertex buffer constructed.
VertexBufferIdle ==
  /\ m_vertexCount = 0
  /\ vb_stride = 0
  /\ vb_state = "none"
  /\ vb_argStride = 0

\* A buffer of MaxVertexBytes bytes, without implementation or with one of
\* software storage, mapped and unmapped more than once before, and no vertex
\* buffer over it yet.
VertexBufferInit ==
  /\ m_size = MaxVertexBytes
  /\ \/ m_impl = 0 /\ impl_storage = "none" /\ impl_bytes = <<>>
     \/ /\ m_impl = 1 /\ impl_storage = "DataStorage_Software"
        /\ impl_bytes = [i \in 1..m_size |-> 0]
  /\ impl_mapped = FALSE
  /\ m_startOffset = 0
  /\ m_endOffset = 0
  /\ buf_livePtrs = {}
  /\ buf_op = "none" /\ buf_argOffset = 0 /\ buf_argSize = 0
  /\ buf_cycle = "remapped"
  /\ buf_ret = "none" /\ buf_ptr = 0
  /\ buf_rejected = FALSE /\ buf_forwarded = FALSE
  /\ buf_pc = "run"
  /\ VertexBufferIdle

VertexBufferNext ==
  \/ \E stride \in Strides, startOffset \in VertexOffsets :
       \E endOffset \in startOffset..MaxVertexBytes :
         VertexBufferConstruct(stride, startOffset, endOffset)
  \/ \E stride \in Strides, length \in VertexLengths, storage \in Storages :
       VertexBufferConstructLength(stride, length, storage)
  \/ VertexBufferCopy
  \/ \E last \in BOOLEAN : VertexBufferRelease(last)
  \/ GetVertexCount
  \/ \E byte \in Bytes, offset \in VertexOffsets, size \in VertexOffsets :
       vb_state = "constructed" /\ VertexBufferFill(byte, offset, size)
  \/ \E byte \in Bytes, startVertex \in VertexLengths, length \in VertexLengths :
       FillVertices(byte, startVertex, length)
  \/ \E offset \in VertexOffsets, size \in VertexOffsets :
       vb_state = "constructed" /\ VertexBufferMap(offset, size)
  \/ \E startVertex \in VertexLengths, length \in VertexLengths :
       MapVertices(startVertex, length)
  \/ vb_state = "constructed" /\ VertexBufferUnmap
  \/ \E storage \in Storages, created \in BOOLEAN : SetStorage(storage, created)
  \/ \E stride \in Strides : SetVertexDeclaration(stride)

(***************************************************************************)
(* Vk::DeviceMemory: a DeviceObject holding one allocation and the pointer *)
(* of its mapping.  Only the class declaration is at hand; its operations  *)
(* follow the written contract and the declaration.  Create delegates to   *)
(* the creation hook and stores the handle; a failed Create mutates no     *)
(* prior state.  Map asks the driver for a pointer and fails on memory     *)
(* that is not host visible.  Unmap ends the mapping.  Destroy belongs to  *)
(* DeviceObject (the class declares none, its destructor is defaulted and  *)
(* its DestroyHelper is static): it runs the destruction hook on a         *)
(* non-null handle and nulls the handle, and has no access to m_mappedPtr. *)
(* A move hands handle and mapping to the new object and leaves the source *)
(* without either.  Map on an object without handle and Unmap on an object *)
(* that is not mapped are precondition violations: a hard stop.            *)
(***************************************************************************)
MemObjects == 1..MaxMemObjects
Allocs == 1..MaxAlloc
MemOffsets == 0..MaxMemOffset
MemResults == {"VK_SUCCESS", "VK_ERROR_MEMORY_MAP_FAILED"}

MemCall(op, obj, ret) ==
  /\ mem_op' = op
  /\ mem_obj' = obj
  /\ mem_ret' = ret

MemAbort(op, obj) ==
  /\ MemCall(op, obj, "none")
  /\ mem_pc' = "aborted"
  /\ UNCHANGED <<mem_state, mem_handle, m_mappedPtr, mem_lastErrorCode, vkMemLive,
                 vkMemHostVisible, vkMemMapped>>

\* The host pointer the driver gives for a mapping of an allocation at offset.
MappedAddress(alloc, offset) == alloc * (MaxMemOffset + 1) + offset

\* DeviceMemory::DeviceMemory(): no handle, no mapping
MemConstruct(obj) ==
  /\ mem_pc = "run"
  /\ mem_state[obj] = "none"
  /\ MemCall("DeviceMemory", obj, "void")
  /\ mem_state' = [mem_state EXCEPT ![obj] = "live"]
  /\ mem_handle' = [mem_handle EXCEPT ![obj] = 0]
  /\ m_mappedPtr' = [m_mappedPtr EXCEPT ![obj] = 0]
  /\ mem_lastErrorCode' = [mem_lastErrorCode EXCEPT ![obj] = "VK_SUCCESS"]
  /\ UNCHANGED <<vkMemLive, vkMemHostVisible, vkMemMapped, mem_pc, notMemory>>

\* DeviceMemory(DeviceMemory&& memory): obj is built from memory
MemMoveConstruct(obj, memory) ==
  /\ mem_pc = "run"
  /\ obj # memory
  /\ mem_state[obj] = "none"
  /\ mem_state[memory] = "live"
  /\ MemCall("DeviceMemory(DeviceMemory&&)", obj, "void")
  /\ mem_state' = [mem_state EXCEPT ![obj] = "live"]
  /\ mem_handle' = [mem_handle EXCEPT ![obj] = mem_handle[memory], ![memory] = 0]
  /\ m_mappedPtr' = [m_mappedPtr EXCEPT ![obj] = m_mappedPtr[memory], ![memory] = 0]
  /\ mem_lastErrorCode' =
       [mem_lastErrorCode EXCEPT ![obj] = mem_lastErrorCode[memory]]
  /\ UNCHANGED <<vkMemLive, vkMemHostVisible, vkMemMapped, mem_pc, notMemory>>

\* DeviceMemory::Create: delegates to the creation hook (vkAllocateMemory);
\* on success the handle is stored over the one held, on failure only the
\* error code is.  m_mappedPtr is not part of it.
MemCreate(obj, hostVisible, res) ==
  /\ mem_pc = "run"
  /\ mem_state[obj] = "live"
  /\ vkMemLive # Allocs
  /\ MemCall("Create", obj, BoolRet(res = "VK_SUCCESS"))
  /\ mem_lastErrorCode' = [mem_lastErrorCode EXCEPT ![obj] = res]
  /\ IF res = "VK_SUCCESS"
     THEN LET h == CHOOSE a \in Allocs \ vkMemLive :
                     \A b \in Allocs \ vkMemLive : a <= b
          IN /\ mem_handle' = [mem_handle EXCEPT ![obj] = h]
             /\ vkMemLive' = vkMemLive \cup {h}
             /\ vkMemHostVisible' = IF hostVisible THEN vkMemHostVisible \cup {h}
                                    ELSE vkMemHostVisible \ {h}
     ELSE UNCHANGED <<mem_handle, vkMemLive, vkMemHostVisible>>
  /\ UNCHANGED <<mem_state, m_mappedPtr, vkMemMapped, mem_pc, notMemory>>

\* DeviceMemory::Map(offset, size, flags): forwarded to vkMapMemory on the
\* handle held, mapped before or not; it fails on memory that is not host
\* visible.  A success stores the pointer the driver gives; a failure stores
\* the error code and is stated to do nothing else.
MemMap(obj, offset, res) ==
  /\ mem_pc = "run"
  /\ mem_state[obj] = "live"
  /\ IF mem_handle[obj] = 0
     THEN MemAbort("Map", obj)
     ELSE /\ res = "VK_SUCCESS" => mem_handle[obj] \in vkMemHostVisible
          /\ MemCall("Map", obj, BoolRet(res = "VK_SUCCESS"))
          /\ mem_lastErrorCode' = [mem_lastErrorCode EXCEPT ![obj] = res]
          /\ IF res = "VK_SUCCESS"
             THEN /\ m_mappedPtr' = [m_mappedPtr EXCEPT
                                       ![obj] = MappedAddress(mem_handle[obj], offset)]
                  /\ vkMemMapped' = vkMemMapped \cup {mem_handle[obj]}
             ELSE UNCHANGED <<m_mappedPtr, vkMemMapped>>
          /\ UNCHANGED <<mem_state, mem_handle, vkMemLive, vkMemHostVisible, mem_pc>>
  /\ UNCHANGED notMemory

\* DeviceMemory::Unmap(): vkUnmapMemory, the pointer is forgotten
MemUnmap(obj) ==
  /\ mem_pc = "run"
  /\ mem_state[obj] = "live"
  /\ IF m_mappedPtr[obj] = 0
     THEN MemAbort("Unmap", obj)
     ELSE /\ MemCall("Unmap", obj, "void")
          /\ vkMemMapped' = vkMemMapped \ {mem_handle[obj]}
          /\ m_mappedPtr' = [m_mappedPtr EXCEPT ![obj] = 0]
          /\ UNCHANGED <<mem_state, mem_handle, mem_lastErrorCode, vkMemLive,
                         vkMemHostVisible, mem_pc>>
  /\ UNCHANGED notMemory

\* The effect of DeviceObject::Destroy on handle and driver: the static
\* destruction hook (vkFreeMemory, which ends the driver's mapping of the
\* allocation) runs on a non-null handle only, then the handle is nulled.
MemRelease(obj) ==
  /\ IF mem_handle[obj] # 0
     THEN /\ vkMemLive' = vkMemLive \ {mem_handle[obj]}
          /\ vkMemMapped' = vkMemMapped \ {mem_handle[obj]}
          /\ mem_handle' = [mem_handle EXCEPT ![obj] = 0]
     ELSE UNCHANGED <<vkMemLive, vkMemMapped, mem_handle>>
  /\ UNCHANGED <<mem_lastErrorCode, vkMemHostVisible, mem_pc>>

\* DeviceObject::Destroy, inherited: m_mappedPtr is a member of the child
\* and stays as it is.
MemDestroy(obj) ==
  /\ mem_pc = "run"
  /\ mem_state[obj] = "live"
  /\ MemCall("Destroy", obj, "void")
  /\ MemRelease(obj)
  /\ UNCHANGED <<mem_state, m_mappedPtr, notMemory>>

\* ~DeviceMemory, defaulted: the base destroys, then the object and its
\* members are gone.
MemDestructor(obj) ==
  /\ mem_pc = "run"
  /\ mem_state[obj] = "live"
  /\ MemCall("~DeviceMemory", obj, "void")
  /\ MemRelease(obj)
  /\ mem_state' = [mem_state EXCEPT ![obj] = "none"]
  /\ m_mappedPtr' = [m_mappedPtr EXCEPT ![obj] = 0]
  /\ UNCHANGED notMemory

\* DeviceMemory::GetMappedPointer: m_mappedPtr
GetMappedPointer(obj) ==
  /\ mem_pc = "run"
  /\ mem_state[obj] = "live"
  /\ MemCall("GetMappedPointer", obj, m_mappedPtr[obj])
  /\ UNCHANGED <<mem_state, mem_handle, m_mappedPtr, mem_lastErrorCode, vkMemLive,
                 vkMemHostVisible, vkMemMapped, mem_pc, notMemory>>

\* No DeviceMemory object constructed, no allocation made.
MemoryIdle ==
  /\ mem_state = [o \in MemObjects |-> "none"]
  /\ mem_handle = [o \in MemObjects |-> 0]
  /\ m_mappedPtr = [o \in MemObjects |-> 0]
  /\ mem_lastErrorCode = [o \in MemObjects |-> "VK_SUCCESS"]
  /\ vkMemLive = {}
  /\ vkMemHostVisible = {}
  /\ vkMemMapped = {}
  /\ mem_op = "none" /\ mem_obj = 0 /\ mem_ret = "none"
  /\ mem_pc = "run"

MemoryNext ==
  \/ \E obj \in MemObjects : MemConstruct(obj)
  \/ \E obj \in MemObjects, memory \in MemObjects : MemMoveConstruct(obj, memory)
  \/ \E obj \in MemObjects, hostVisible \in BOOLEAN,
        res \in {"VK_SUCCESS", "VK_ERROR_OUT_OF_DEVICE_MEMORY"} :
       MemCreate(obj, hostVisible, res)
  \/ \E obj \in MemObjects, offset \in MemOffsets, res \in MemResults :
       MemMap(obj, offset, res)
  \/ \E obj \in MemObjects : MemUnmap(obj)
  \/ \E obj \in MemObjects : MemDestroy(obj)
  \/ \E obj \in MemObjects : MemDestructor(obj)
  \/ \E obj \in MemObjects : GetMappedPointer(obj)

(***************************************************************************)
(* Vk::Instance: one native instance and the table of instance-level       *)
(* function pointers resolved for it.  Only the class declaration is at    *)
(* hand; Create, Destroy, DestroyInstance and ResetPointers follow the     *)
(* written contract: Create makes the native creation call, on failure     *)
(* returns false and leaves the instance unusable, on success resolves the *)
(* table (the functions of an extension only when it was loaded) and       *)
(* records the extensions loaded; Destroy destroys a held instance through *)
(* the native call and resets every pointer to null; the destructor        *)
(* destroys.  A call through a null function pointer is undefined.         *)
(***************************************************************************)
InstanceHandles == 1..MaxInstance
InstanceExtensions == {"VK_KHR_surface", "VK_EXT_debug_report"}
CoreFunctions == {"vkDestroyInstance", "vkEnumeratePhysicalDevices"}
ExtensionFunctions == {"vkDestroySurfaceKHR", "vkCreateDebugReportCallbackEXT"}
InstanceFunctions == CoreFunctions \cup ExtensionFunctions
InstanceResults == {"VK_SUCCESS", "VK_ERROR_INCOMPATIBLE_DRIVER"}

\* The extension an instance-level function belongs to.
ExtensionOf(func) ==
  IF func = "vkDestroySurfaceKHR" THEN "VK_KHR_surface" ELSE "VK_EXT_debug_report"

\* Instance::ResetPointers: every instance-level function pointer set to null
ResetPointers == [f \in InstanceFunctions |-> FALSE]

\* The table resolved by a successful Create.
LoadPointers(extensions) ==
  [f \in InstanceFunctions |->
     f \in CoreFunctions \/ ExtensionOf(f) \in extensions]

InstanceCall(fn, instance) == [fn |-> fn, instance |-> instance]

\* Instance::DestroyInstance: the native destroy call on the held instance
DestroyInstance(instance) == <<InstanceCall("vkDestroyInstance", instance)>>

\* Instance::Destroy: handle, pointer table and native calls after it.
InstanceDestroyKeepsHandle(instance, fn) ==
  IF instance # 0
  THEN [instance |-> instance, fn |-> ResetPointers, calls |-> DestroyInstance(instance)]
  ELSE [instance |-> instance, fn |-> fn, calls |-> <<>>]

InstanceDestroyStep(instance, fn) ==
  IF instance # 0
  THEN [instance |-> 0, fn |-> ResetPointers, calls |-> DestroyInstance(instance)]
  ELSE [instance |-> instance, fn |-> fn, calls |-> <<>>]

\* Instance::Create(createInfo, allocator), on an instance holding no handle
InstanceCreate(extensions, res) ==
  /\ inst_pc = "run"
  /\ m_instance = 0
  /\ \E h \in InstanceHandles \ vkInstances :
       /\ inst_calls' = <<InstanceCall("vkCreateInstance", 0)>>
       /\ inst_lastErrorCode' = res
       /\ IF res = "VK_SUCCESS"
          THEN /\ m_instance' = h
               /\ vkInstances' = vkInstances \cup {h}
               /\ inst_fn' = LoadPointers(extensions)
               /\ m_loadedExtensions' = extensions
          ELSE UNCHANGED <<m_instance, vkInstances, inst_fn, m_loadedExtensions>>
  /\ inst_op' = "Create"
  /\ inst_ret' = BoolRet(res = "VK_SUCCESS")
  /\ UNCHANGED <<vkInstBadDestroy, inst_pc, notInstance>>

\* The loader's view of the calls of a Destroy.
InstanceRelease(step) ==
  /\ m_instance' = step.instance
  /\ inst_fn' = step.fn
  /\ inst_calls' = step.calls
  /\ vkInstances' = vkInstances \ {c.instance : c \in {step.calls[i] : i \in DOMAIN step.calls}}
  /\ vkInstBadDestroy' =
       (vkInstBadDestroy \/ \E i \in DOMAIN step.calls :
                              step.calls[i].instance \notin vkInstances)

\* Instance::Destroy()
InstanceDestroy ==
  /\ inst_pc = "run"
  /\ InstanceRelease(InstanceDestroyStep(m_instance, inst_fn))
  /\ inst_op' = "Destroy"
  /\ inst_ret' = "void"
  /\ UNCHANGED <<inst_lastErrorCode, m_loadedExtensions, inst_pc, notInstance>>

\* Instance::~Instance(): destroys on scope exit
InstanceDestructor ==
  /\ inst_pc = "run"
  /\ InstanceRelease(InstanceDestroyStep(m_instance, inst_fn))
  /\ inst_op' = "~Instance"
  /\ inst_ret' = "void"
  /\ inst_pc' = "destructed"
  /\ UNCHANGED <<inst_lastErrorCode, m_loadedExtensions, notInstance>>

\* Instance::IsValid: m_instance != nullptr
InstanceIsValid ==
  /\ inst_pc = "run"
  /\ inst_op' = "IsValid"
  /\ inst_ret' = BoolRet(m_instance # 0)
  /\ inst_calls' = <<>>
  /\ UNCHANGED <<m_instance, inst_fn, inst_lastErrorCode, m_loadedExtensions,
                 vkInstances, vkInstBadDestroy, inst_pc, notInstance>>

\* Instance::IsExtensionLoaded: membership in m_loadedExtensions
IsExtensionLoaded(extensionName) ==
  /\ inst_pc = "run"
  /\ inst_op' = "IsExtensionLoaded"
  /\ inst_ret' = BoolRet(extensionName \in m_loadedExtensions)
  /\ inst_calls' = <<>>
  /\ UNCHANGED <<m_instance, inst_fn, inst_lastErrorCode, m_loadedExtensions,
                 vkInstances, vkInstBadDestroy, inst_pc, notInstance>>

\* A wrapper method forwarding to the instance-level function func through its
\* pointer (EnumeratePhysicalDevices, ...); through a null pointer the call is
\* undefined behaviour.
InstanceForward(func) ==
  /\ inst_pc = "run"
  /\ inst_op' = func
  /\ IF inst_fn[func]
     THEN /\ inst_calls' = <<InstanceCall(func, m_instance)>>
          /\ inst_ret' = "VK_SUCCESS"
          /\ UNCHANGED inst_pc
     ELSE /\ inst_calls' = <<>>
          /\ inst_ret' = "none"
          /\ inst_pc' \in {"crashed", "undefined"}
  /\ UNCHANGED <<m_instance, inst_fn, inst_lastErrorCode, m_loadedExtensions,
                 vkInstances, vkInstBadDestroy, notInstance>>

\* Instance::Instance(): no handle
InstanceIdle ==
  /\ m_instance = 0
  /\ inst_fn = ResetPointers
  /\ inst_lastErrorCode = "VK_SUCCESS"
  /\ m_loadedExtensions = {}
  /\ vkInstances = {}
  /\ vkInstBadDestroy = FALSE
  /\ inst_calls = <<>>
  /\ inst_op = "none" /\ inst_ret = "none"
  /\ inst_pc = "run"

InstanceNext ==
  \/ \E extensions \in SUBSET InstanceExtensions, res \in InstanceResults :
       InstanceCreate(extensions, res)
  \/ InstanceDestroy
  \/ InstanceDestructor
  \/ InstanceIsValid
  \/ \E extensionName \in InstanceExtensions : IsExtensionLoaded(extensionName)
  \/ \E func \in InstanceFunctions \ {"vkDestroyInstance"} : InstanceForward(func)

(***************************************************************************)
(* Unicode, implementation handling the ASCII table.  A character is a     *)
(* char32_t code point.  The case functions add an int to it inside a      *)
(* range test: the sum is taken modulo 2^32, and within the tested range   *)
(* it is the plain sum, between 'A' and 'z'.                               *)
(***************************************************************************)
\* Code points tried: the 8-bit range, the last Unicode code point and a
\* character with the high bits set.
Characters == (0..MaxChar) \cup {1114111, 2147483647}

\* The case labels of the switch of GetCategory, group by group.
CaseOtherControl == (0..31) \cup {127}
CaseSeparatorSpace == {32}
CasePunctuationOther == {33, 34, 35, 36, 37, 38, 39, 42, 44, 46, 47, 58, 59, 63, 64, 92}
CasePunctuationOpen == {40, 91, 123}
CasePunctuationClose == {41, 125, 93}
CaseSymbolMath == {43, 60, 61, 62, 124, 126}
CasePunctuationDash == {45}
CaseDigits == 48..57
CaseUpperLetters == 65..90
CasePunctuationConnector == {95}
CaseSymbolModifier == {94, 96}
CaseLowerLetters == 97..122

\* Unicode::GetCategory(character)
GetCategoryOf(character) ==
  IF character \in CaseOtherControl THEN "Category_Other_Control"
  ELSE IF character \in CaseSeparatorSpace THEN "Category_Separator_Space"
  ELSE IF character \in CasePunctuationOther THEN "Category_Punctuation_Other"
  ELSE IF character \in CasePunctuationOpen THEN "Category_Punctuation_Open"
  ELSE IF character \in CasePunctuationClose THEN "Category_Punctuation_Close"
  ELSE IF character \in CaseSymbolMath THEN "Category_Symbol_Math"
  ELSE IF character \in CasePunctuationDash THEN "Category_Punctuation_Dash"
  ELSE IF character \in CaseDigits THEN "Category_Number_DecimalDigit"
  ELSE IF character \in CaseUpperLetters THEN "Category_Number_DecimalDigit"
  ELSE IF character \in CasePunctuationConnector THEN "Category_Punctuation_Connector"
  ELSE IF character \in CaseSymbolModifier THEN "Category_Symbol_Modifier"
  ELSE IF character \in CaseLowerLetters THEN "Category_Number_DecimalDigit"
  ELSE "Category_NoCategory"

\* Unicode::GetLowercase: character + ('a' - 'A') for 'A'..'Z'
GetLowercaseOf(character) ==
  IF character >= 65 /\ character <= 90
  THEN character + (97 - 65)
  ELSE character

\* Unicode::GetUppercase: character + ('A' - 'a') for 'a'..'z'
GetUppercaseStopsBeforeZ(character) ==
  IF character >= 97 /\ character < 122
  THEN character + (65 - 97)
  ELSE character

GetUppercaseOf(character) ==
  IF character >= 97 /\ character <= 122
  THEN character + (65 - 97)
  ELSE character

\* Unicode::GetTitlecase: GetUppercase(character)
GetTitlecaseOf(character) == GetUppercaseOf(character)

UnicodeCall(op, character, ret, category) ==
  /\ uni_op' = op
  /\ uni_character' = character
  /\ uni_ret' = ret
  /\ uni_category' = category
  /\ UNCHANGED notUnicode

GetCategory(character) ==
  UnicodeCall("GetCategory", character, 0, GetCategoryOf(character))

GetLowercase(character) ==
  UnicodeCall("GetLowercase", character, GetLowercaseOf(character), "none")

GetTitlecase(character) ==
  UnicodeCall("GetTitlecase", character, GetTitlecaseOf(character), "none")

GetUppercase(character) ==
  UnicodeCall("GetUppercase", character, GetUppercaseOf(character), "none")

\* No function called yet.
UnicodeIdle ==
  /\ uni_op = "none"
  /\ uni_character = 0
  /\ uni_ret = 0
  /\ uni_category = "none"

UnicodeNext ==
  \/ \E character \in Characters : GetCategory(character)
  \/ \E character \in Characters : GetLowercase(character)
  \/ \E character \in Characters : GetTitlecase(character)
  \/ \E character \in Characters : GetUppercase(character)

(***************************************************************************)
(* BaseWidget.  Widget 0 is the canvas, the root of the tree; the other    *)
(* widgets are constructed with a parent, either by Add, which hands them  *)
(* to the parent's m_children, or by the constructor alone, which leaves   *)
(* them to their maker.  A widget's address is never reused: a deleted     *)
(* widget stays deleted, and a pointer to it dangles.  The canvas keeps    *)
(* the set of registered widgets and the keyboard owner; an entity fires   *)
(* its enabled / disabled signal when Enable changes its state.  Geometry  *)
(* (Layout, scissor rectangles) is not carried.                            *)
(***************************************************************************)
NoWidget == -1
CanvasWidget == 0
Widgets == 0..MaxWidgets

Alive(w) == w \in Widgets /\ w_state[w] = "alive"

\* The part of the state the widget operations work on.
WidgetState ==
  [visible |-> m_visible, registered |-> w_registered, entities |-> m_entities,
   canvas |-> cv_widgets, keyboardOwner |-> cv_keyboardOwner, pc |-> w_pc]

\* BaseWidget::RegisterToCanvas: asserts the widget is not registered, then
\* takes an index from the canvas.
RegisterToCanvas(S, w) ==
  IF S.registered[w]
  THEN [S EXCEPT !.pc = "aborted"]
  ELSE [S EXCEPT !.registered[w] = TRUE, !.canvas = @ \cup {w}]

\* BaseWidget::UnregisterFromCanvas: a registered widget gives its index back;
\* the canvas forgets it as keyboard owner.
UnregisterFromCanvas(S, w) ==
  IF S.registered[w]
  THEN [S EXCEPT !.registered[w] = FALSE,
                 !.canvas = @ \ {w},
                 !.keyboardOwner = IF @ = w THEN NoWidget ELSE @]
  ELSE S

\* Entity::Enable(enable) on an entity of a widget of the given visibility, the
\* slots of CreateEntity connected.  A change of state fires the signal:
\* the disabled slot clears isEnabled; the enabled slot disables the entity
\* again when the widget is hidden (which fires the disabled slot) and then
\* sets isEnabled.
EnableEntity(entity, visible, enable) ==
  IF entity.enabled = enable THEN entity
  ELSE IF enable
       THEN IF ~visible THEN [enabled |-> FALSE, isEnabled |-> TRUE]
            ELSE [enabled |-> TRUE, isEnabled |-> TRUE]
       ELSE [enabled |-> FALSE, isEnabled |-> FALSE]

\* The body of the entity loop of Show for one entity.
ShowEntityLosesFlag(entity, show) ==
  IF entity.isEnabled THEN EnableEntity(entity, show, show) ELSE entity

ShowEntity(entity, show) ==
  IF entity.isEnabled
  THEN [EnableEntity(entity, show, show) EXCEPT !.isEnabled = TRUE]
  ELSE entity

\* The test of Show: the visibility asked for is not the current one.
ShowAlways(visible, show) == TRUE

ShowChanges(visible, show) == visible # show

RECURSIVE ShowWidget(_, _, _)
RECURSIVE ShowChildren(_, _, _, _)

\* BaseWidget::Show(show) on widget w
ShowWidget(S, w, show) ==
  IF S.pc # "run" \/ ~ShowChanges(S.visible[w], show) THEN S
  ELSE LET S1 == [S EXCEPT !.visible[w] = show]
           S2 == IF show THEN RegisterToCanvas(S1, w) ELSE UnregisterFromCanvas(S1, w)
           S3 == [S2 EXCEPT !.entities[w] =
                    [i \in DOMAIN @ |-> ShowEntity(@[i], show)]]
       IN IF S2.pc # "run" THEN S2
          ELSE ShowChildren(S3, m_children[w], 1, show)

\* BaseWidget::ShowChildren: Show on every child, in order, from the k-th on
ShowChildren(S, children, k, show) ==
  IF k > Len(children) THEN S
  ELSE ShowChildren(ShowWidget(S, children[k], show), children, k + 1, show)

WidgetCall(op, w, flag, ret) ==
  /\ w_op' = op
  /\ w_arg' = w
  /\ w_flag' = flag
  /\ w_ret' = ret
  /\ w_wasVisible' = m_visible[w]

WidgetApply(S) ==
  /\ m_visible' = S.visible
  /\ w_registered' = S.registered
  /\ m_entities' = S.entities
  /\ cv_widgets' = S.canvas
  /\ cv_keyboardOwner' = S.keyboardOwner
  /\ w_pc' = S.pc

Show(w, show) ==
  /\ w_pc = "run"
  /\ Alive(w)
  /\ WidgetCall("Show", w, show, "void")
  /\ WidgetApply(ShowWidget(WidgetState, w, show))
  /\ UNCHANGED <<w_state, m_widgetParent, m_children, m_backgroundEntity, notWidget>>

\* BaseWidget::BaseWidget(BaseWidget* parent) constructing widget w, the next
\* address not yet used: the widget is visible, takes the parent's canvas,
\* records the parent and registers to the canvas.  The parent's m_children
\* is not touched.
Construct(w, parent, op) ==
  /\ w_state[w] = "none"
  /\ \A x \in Widgets : x < w => w_state[x] # "none"
  /\ WidgetCall(op, w, TRUE, "void")
  /\ w_state' = [w_state EXCEPT ![w] = "alive"]
  /\ m_widgetParent' = [m_widgetParent EXCEPT ![w] = parent]
  /\ WidgetApply(RegisterToCanvas(
       [WidgetState EXCEPT !.visible[w] = TRUE, !.registered[w] = FALSE], w))

\* new T(parent): the constructor alone; no m_children holds the widget.
ConstructWidget(parent) ==
  /\ w_pc = "run"
  /\ Alive(parent)
  /\ \E w \in Widgets : Construct(w, parent, "BaseWidget")
  /\ UNCHANGED <<m_children, m_backgroundEntity, notWidget>>

\* parent->Add<T>(): the widget is constructed with BaseWidget(parent) and
\* moved to the end of the parent's m_children, which owns it from then on.
AddWidget(parent) ==
  /\ w_pc = "run"
  /\ Alive(parent)
  /\ \E w \in Widgets :
       /\ Construct(w, parent, "Add")
       /\ m_children' = [m_children EXCEPT ![parent] = Append(@, w)]
  /\ UNCHANGED <<m_backgroundEntity, notWidget>>

\* m_widgetParent of widget w points at a deleted widget.
ParentDangles(w) == m_widgetParent[w] # NoWidget /\ ~Alive(m_widgetParent[w])

\* UpdatePositionAndSize on widget w reads the scissor rectangle of
\* m_widgetParent: through a pointer to a deleted widget that is undefined
\* behaviour, which goes on, crashes or does anything.
UpdatePositionAndSize(w) ==
  IF ParentDangles(w) THEN w_pc' \in {"run", "crashed", "undefined"}
  ELSE UNCHANGED w_pc

\* BaseWidget::Resize(size): the size is clamped and stored, then Layout
\* updates position and size.  The geometry is not part of the state.
Resize(w) ==
  /\ w_pc = "run"
  /\ Alive(w)
  /\ WidgetCall("Resize", w, TRUE, "void")
  /\ UpdatePositionAndSize(w)
  /\ UNCHANGED <<w_state, m_visible, w_registered, m_widgetParent, m_children,
                 m_entities, m_backgroundEntity, cv_widgets, cv_keyboardOwner,
                 notWidget>>

\* BaseWidget::SetRenderingRect(renderingRect): the rectangle is stored, then
\* position and size are updated for the widget and for each of m_children,
\* each against its own m_widgetParent.
SetRenderingRect(w) ==
  /\ w_pc = "run"
  /\ Alive(w)
  /\ WidgetCall("SetRenderingRect", w, TRUE, "void")
  /\ IF \E x \in {w} \cup {m_children[w][k] : k \in DOMAIN m_children[w]} :
          ParentDangles(x)
     THEN w_pc' \in {"run", "crashed", "undefined"}
     ELSE UNCHANGED w_pc
  /\ UNCHANGED <<w_state, m_visible, w_registered, m_widgetParent, m_children,
                 m_entities, m_backgroundEntity, cv_widgets, cv_keyboardOwner,
                 notWidget>>

\* BaseWidget::SetParent(widget), on any widget and with any widget, itself
\* included: the canvases are the same one; Node::SetParent invalidates the
\* node, which updates position and size against the old m_widgetParent;
\* then m_widgetParent is set.  m_children is not touched.
SetParent(w, widget) ==
  /\ w_pc = "run"
  /\ Alive(w) /\ Alive(widget)
  /\ WidgetCall("SetParent", w, TRUE, "void")
  /\ UpdatePositionAndSize(w)
  /\ m_widgetParent' = IF w_pc' = "run" THEN [m_widgetParent EXCEPT ![w] = widget]
                       ELSE m_widgetParent
  /\ UNCHANGED <<w_state, m_visible, w_registered, m_children, m_entities,
                 m_backgroundEntity, cv_widgets, cv_keyboardOwner, notWidget>>

RECURSIVE Owned(_)
\* The widget w and the widgets deleted with it: those of its m_children.
Owned(w) ==
  {w} \cup UNION {Owned(m_children[w][i]) : i \in DOMAIN m_children[w]}

\* Some m_children holds widget w.
Held(w) ==
  \E p \in Widgets : \E i \in DOMAIN m_children[p] : m_children[p][i] = w

\* The widgets of the set gone are deleted: each unregisters from the canvas
\* in its destructor, and its children and entities go with it.
DeleteWidgets(gone) ==
  /\ w_state' = [x \in Widgets |-> IF x \in gone THEN "deleted" ELSE w_state[x]]
  /\ w_registered' = [x \in Widgets |-> w_registered[x] /\ x \notin gone]
  /\ cv_widgets' = cv_widgets \ gone
  /\ cv_keyboardOwner' = IF cv_keyboardOwner \in gone THEN NoWidget
                         ELSE cv_keyboardOwner
  /\ m_entities' = [x \in Widgets |-> IF x \in gone THEN <<>> ELSE m_entities[x]]
  /\ m_backgroundEntity' = [x \in Widgets |->
                              IF x \in gone THEN 0 ELSE m_backgroundEntity[x]]

\* m_children of the parent without widget w: std::find_if and erase
EraseChild(children, w) ==
  SelectSeq(children, LAMBDA x : x # w)

\* BaseWidget::Destroy: asserts the widget is not the canvas, then
\* m_widgetParent->DestroyChild(this), which asserts the widget is among the
\* parent's children and erases it: the widget is deleted, unregistering from
\* the canvas, and its children with it.  A call through the pointer to a
\* deleted parent is undefined behaviour.
DestroyWidget(w) ==
  /\ w_pc = "run"
  /\ Alive(w)
  /\ WidgetCall("Destroy", w, TRUE, "void")
  /\ LET parent == m_widgetParent[w]
         found == \E i \in DOMAIN m_children[parent] : m_children[parent][i] = w
         gone == Owned(w)
     IN IF w = CanvasWidget
        THEN /\ w_pc' = "aborted"
             /\ UNCHANGED <<w_state, m_visible, w_registered, m_widgetParent,
                            m_children, m_entities, m_backgroundEntity,
                            cv_widgets, cv_keyboardOwner>>
        ELSE IF ~Alive(parent)
        THEN /\ w_pc' \in {"crashed", "undefined"}
             /\ UNCHANGED <<w_state, m_visible, w_registered, m_widgetParent,
                            m_children, m_entities, m_backgroundEntity,
                            cv_widgets, cv_keyboardOwner>>
        ELSE IF ~found
        THEN /\ w_pc' = "aborted"
             /\ UNCHANGED <<w_state, m_visible, w_registered, m_widgetParent,
                            m_children, m_entities, m_backgroundEntity,
                            cv_widgets, cv_keyboardOwner>>
        ELSE /\ DeleteWidgets(gone)
             /\ m_children' = [x \in Widgets |->
                                 IF x \in gone THEN <<>>
                                 ELSE IF x = parent THEN EraseChild(m_children[x], w)
                                 ELSE m_children[x]]
             /\ UNCHANGED <<m_visible, m_widgetParent, w_pc>>
  /\ UNCHANGED notWidget

\* BaseWidget::DestroyChildren: m_children.clear(), every child is deleted.
DestroyChildren(w) ==
  /\ w_pc = "run"
  /\ Alive(w)
  /\ WidgetCall("DestroyChildren", w, TRUE, "void")
  /\ DeleteWidgets(Owned(w) \ {w})
  /\ m_children' = [x \in Widgets |->
                      IF x \in Owned(w) THEN <<>> ELSE m_children[x]]
  /\ UNCHANGED <<m_visible, m_widgetParent, w_pc, notWidget>>

\* BaseWidget::~BaseWidget on a widget made by the constructor alone, which
\* its maker deletes: UnregisterFromCanvas, then the members go, its children
\* with them.  A widget held by an m_children is deleted by that list.
WidgetDestructor(w) ==
  /\ w_pc = "run"
  /\ Alive(w)
  /\ w # CanvasWidget
  /\ ~Held(w)
  /\ WidgetCall("~BaseWidget", w, TRUE, "void")
  /\ DeleteWidgets(Owned(w))
  /\ m_children' = [x \in Widgets |->
                      IF x \in Owned(w) THEN <<>> ELSE m_children[x]]
  /\ UNCHANGED <<m_visible, m_widgetParent, w_pc, notWidget>>

\* BaseWidget::SetFocus: a registered widget becomes the keyboard owner
SetFocus(w) ==
  /\ w_pc = "run"
  /\ Alive(w)
  /\ WidgetCall("SetFocus", w, TRUE, "void")
  /\ cv_keyboardOwner' = IF w_registered[w] THEN w ELSE cv_keyboardOwner
  /\ UNCHANGED <<w_state, m_visible, w_registered, m_widgetParent, m_children,
                 m_entities, m_backgroundEntity, cv_widgets, w_pc, notWidget>>

\* BaseWidget::ClearFocus: a registered widget asks the canvas to clear the
\* keyboard owner, which the canvas does if and only if this widget owns it
ClearFocus(w) ==
  /\ w_pc = "run"
  /\ Alive(w)
  /\ WidgetCall("ClearFocus", w, TRUE, "void")
  /\ cv_keyboardOwner' = IF w_registered[w] /\ cv_keyboardOwner = w THEN NoWidget
                         ELSE cv_keyboardOwner
  /\ UNCHANGED <<w_state, m_visible, w_registered, m_widgetParent, m_children,
                 m_entities, m_backgroundEntity, cv_widgets, w_pc, notWidget>>

\* BaseWidget::HasFocus: false when not registered, else whether the canvas has
\* the widget as keyboard owner
HasFocus(w) ==
  /\ w_pc = "run"
  /\ Alive(w)
  /\ WidgetCall("HasFocus", w, TRUE,
                BoolRet(w_registered[w] /\ cv_keyboardOwner = w))
  /\ UNCHANGED <<w_state, m_visible, w_registered, m_widgetParent, m_children,
                 m_entities, m_backgroundEntity, cv_widgets, cv_keyboardOwner, w_pc, notWidget>>

\* The number of entities of all widgets.
RECURSIVE EntityCount(_)
EntityCount(ws) ==
  IF ws = {} THEN 0
  ELSE LET w == CHOOSE x \in ws : TRUE
       IN Len(m_entities[w]) + EntityCount(ws \ {w})

\* The entity CreateEntity remembers: enabled as the widget is visible, with
\* isEnabled set.
NewEntity(visible) == [enabled |-> visible, isEnabled |-> TRUE]

\* BaseWidget::CreateEntity: the world's new entity is enabled as the widget is
\* visible, then remembered with isEnabled set and its slots connected.
CreateEntity(w) ==
  /\ w_pc = "run"
  /\ Alive(w)
  /\ EntityCount(Widgets) < MaxEntities
  /\ WidgetCall("CreateEntity", w, TRUE, "void")
  /\ m_entities' = [m_entities EXCEPT ![w] = Append(@, NewEntity(m_visible[w]))]
  /\ UNCHANGED <<w_state, m_visible, w_registered, m_widgetParent, m_children,
                 m_backgroundEntity, cv_widgets, cv_keyboardOwner, w_pc, notWidget>>

\* m_entities without its i-th entity: std::find_if and erase
EraseEntity(entities, i) ==
  [k \in 1..(Len(entities) - 1) |-> IF k < i THEN entities[k] ELSE entities[k + 1]]

\* The place of the background entity once the i-th entity is erased.
PlaceAfterErase(place, i) ==
  IF place = i THEN 0 ELSE IF place > i THEN place - 1 ELSE place

\* BaseWidget::DestroyEntity(entity), called with the i-th entity the widget
\* got from CreateEntity, or with an entity it does not hold (i one past the
\* last): asserts the entity is among m_entities and erases it.  The
\* background entity is known to EnableBackground alone.
DestroyEntity(w, i) ==
  /\ w_pc = "run"
  /\ Alive(w)
  /\ i # m_backgroundEntity[w]
  /\ i <= Len(m_entities[w]) + 1
  /\ WidgetCall("DestroyEntity", w, TRUE, i)
  /\ IF i \notin DOMAIN m_entities[w]
     THEN /\ w_pc' = "aborted"
          /\ UNCHANGED <<m_entities, m_backgroundEntity>>
     ELSE /\ m_entities' = [m_entities EXCEPT ![w] = EraseEntity(@, i)]
          /\ m_backgroundEntity' = [m_backgroundEntity EXCEPT ![w] =
                                      PlaceAfterErase(@, i)]
          /\ UNCHANGED w_pc
  /\ UNCHANGED <<w_state, m_visible, w_registered, m_widgetParent, m_children,
                 cv_widgets, cv_keyboardOwner, notWidget>>

\* BaseWidget::EnableBackground(enable): nothing when the background entity
\* is valid as asked; enabling creates it with CreateEntity and lays the
\* widget out, which updates position and size; disabling destroys it with
\* DestroyEntity and resets the handle.
EnableBackground(w, enable) ==
  /\ w_pc = "run"
  /\ Alive(w)
  /\ enable /\ m_backgroundEntity[w] = 0 => EntityCount(Widgets) < MaxEntities
  /\ WidgetCall("EnableBackground", w, enable, "void")
  /\ IF (m_backgroundEntity[w] # 0) = enable
     THEN UNCHANGED <<m_entities, m_backgroundEntity, w_pc>>
     ELSE IF enable
     THEN /\ m_entities' = [m_entities EXCEPT ![w] = Append(@, NewEntity(m_visible[w]))]
          /\ m_backgroundEntity' = [m_backgroundEntity EXCEPT ![w] =
                                      Len(m_entities[w]) + 1]
          /\ UpdatePositionAndSize(w)
     ELSE /\ m_entities' = [m_entities EXCEPT ![w] =
                              EraseEntity(@, m_backgroundEntity[w])]
          /\ m_backgroundEntity' = [m_backgroundEntity EXCEPT ![w] = 0]
          /\ UNCHANGED w_pc
  /\ UNCHANGED <<w_state, m_visible, w_registered, m_widgetParent, m_children,
                 cv_widgets, cv_keyboardOwner, notWidget>>

\* Entity::Enable(enable) called by the user on the i-th entity of widget w
EntityEnable(w, i, enable) ==
  /\ w_pc = "run"
  /\ Alive(w)
  /\ i \in DOMAIN m_entities[w]
  /\ WidgetCall("Entity::Enable", w, enable, i)
  /\ m_entities' = [m_entities EXCEPT ![w][i] =
                      EnableEntity(@, m_visible[w], enable)]
  /\ UNCHANGED <<w_state, m_visible, w_registered, m_widgetParent, m_children,
                 m_backgroundEntity, cv_widgets, cv_keyboardOwner, w_pc, notWidget>>

\* The canvas constructed: visible, registered to itself, without parent.
WidgetIdle ==
  /\ w_state = [w \in Widgets |-> IF w = CanvasWidget THEN "alive" ELSE "none"]
  /\ m_visible = [w \in Widgets |-> w = CanvasWidget]
  /\ w_registered = [w \in Widgets |-> w = CanvasWidget]
  /\ m_widgetParent = [w \in Widgets |-> NoWidget]
  /\ m_children = [w \in Widgets |-> <<>>]
  /\ m_entities = [w \in Widgets |-> <<>>]
  /\ m_backgroundEntity = [w \in Widgets |-> 0]
  /\ cv_widgets = {CanvasWidget}
  /\ cv_keyboardOwner = NoWidget
  /\ w_op = "none" /\ w_arg = NoWidget /\ w_flag = TRUE /\ w_ret = "none"
  /\ w_wasVisible = TRUE
  /\ w_pc = "run"

\* Visibility and focus: construction, Show, the keyboard owner, deletion.
WidgetNext ==
  \/ \E parent \in Widgets : ConstructWidget(parent)
  \/ \E parent \in Widgets : AddWidget(parent)
  \/ \E w \in Widgets, show \in BOOLEAN : Show(w, show)
  \/ \E w \in Widgets : DestroyWidget(w)
  \/ \E w \in Widgets : DestroyChildren(w)
  \/ \E w \in Widgets : WidgetDestructor(w)
  \/ \E w \in Widgets : SetFocus(w)
  \/ \E w \in Widgets : ClearFocus(w)
  \/ \E w \in Widgets : HasFocus(w)
  \/ \E w \in Widgets : Resize(w)
  \/ \E w \in Widgets : SetRenderingRect(w)

\* The tree: construction, SetParent, Show down the tree, deletion.
WidgetTreeNext ==
  \/ \E parent \in Widgets : ConstructWidget(parent)
  \/ \E parent \in Widgets : AddWidget(parent)
  \/ \E w \in Widgets, show \in BOOLEAN : Show(w, show)
  \/ \E w \in Widgets, widget \in Widgets : SetParent(w, widget)
  \/ \E w \in Widgets : Resize(w)
  \/ \E w \in Widgets : SetRenderingRect(w)
  \/ \E w \in Widgets : DestroyWidget(w)
  \/ \E w \in Widgets : DestroyChildren(w)
  \/ \E w \in Widgets : WidgetDestructor(w)

\* The widgets constructed so far, the canvas apart.
Constructed == {w \in Widgets : w_state[w] # "none"} \ {CanvasWidget}

\* The widgets and their entities: up to MaxEntityWidgets widgets added, Show,
\* and the entities created, enabled, disabled and destroyed.
WidgetEntityNext ==
  \/ \E parent \in Widgets :
       Cardinality(Constructed) < MaxEntityWidgets /\ AddWidget(parent)
  \/ \E w \in Widgets, show \in BOOLEAN : Show(w, show)
  \/ \E w \in Widgets : CreateEntity(w)
  \/ \E w \in Widgets, i \in 1..MaxEntities, enable \in BOOLEAN :
       EntityEnable(w, i, enable)
  \/ \E w \in Widgets, i \in 1..MaxEntities : DestroyEntity(w, i)
  \/ \E w \in Widgets, enable \in BOOLEAN : EnableBackground(w, enable)
  \/ \E w \in Widgets : Resize(w)
  \/ \E w \in Widgets : SetRenderingRect(w)

\* The wrappers modelled after Buffer, as constructed.
LaterIdle ==
  VertexBufferIdle /\ MemoryIdle /\ InstanceIdle /\ UnicodeIdle /\ WidgetIdle

(***************************************************************************)
(* Specifications: one per wrapper, the other wrappers left as constructed *)
(***************************************************************************)
ShaderSpecInit ==
  ShaderInit /\ m_components = <<>> /\ DeclIdle /\ ImageIdle /\ BufferIdle /\ LaterIdle

ShaderSpec == ShaderSpecInit /\ [][ShaderNext]_vars

DeclSpecInit == ShaderInit /\ DeclInit /\ ImageIdle /\ BufferIdle /\ LaterIdle

DeclSpec == DeclSpecInit /\ [][DeclNext]_vars

ImageSpecInit ==
  ShaderInit /\ m_components = <<>> /\ DeclIdle /\ ImageIdle /\ BufferIdle /\ LaterIdle

ImageSpec == ImageSpecInit /\ [][ImageNext]_vars

BufferSpecInit ==
  ShaderInit /\ m_components = <<>> /\ DeclIdle /\ ImageIdle /\ BufferInit /\ LaterIdle

BufferSpec == BufferSpecInit /\ [][BufferNext]_vars

VertexBufferSpecInit ==
  ShaderInit /\ m_components = <<>> /\ DeclIdle /\ ImageIdle /\ VertexBufferInit /\ MemoryIdle /\ InstanceIdle
  /\ UnicodeIdle /\ WidgetIdle

VertexBufferSpec == VertexBufferSpecInit /\ [][VertexBufferNext]_vars

DeviceMemorySpecInit ==
  ShaderInit /\ m_components = <<>> /\ DeclIdle /\ ImageIdle /\ BufferIdle /\ LaterIdle

DeviceMemorySpec == DeviceMemorySpecInit /\ [][MemoryNext]_vars

InstanceSpecInit ==
  ShaderInit /\ m_components = <<>> /\ DeclIdle /\ ImageIdle /\ BufferIdle /\ LaterIdle

InstanceSpec == InstanceSpecInit /\ [][InstanceNext]_vars

UnicodeSpecInit ==
  ShaderInit /\ m_components = <<>> /\ DeclIdle /\ ImageIdle /\ BufferIdle /\ LaterIdle

UnicodeSpec == UnicodeSpecInit /\ [][UnicodeNext]_vars

WidgetSpecInit ==
  ShaderInit /\ m_components = <<>> /\ DeclIdle /\ ImageIdle /\ BufferIdle /\ LaterIdle

WidgetSpec == WidgetSpecInit /\ [][WidgetNext]_vars

WidgetTreeSpecInit ==
  ShaderInit /\ m_components = <<>> /\ DeclIdle /\ ImageIdle /\ BufferIdle /\ LaterIdle

WidgetTreeSpec == WidgetTreeSpecInit /\ [][WidgetTreeNext]_vars

WidgetEntitySpecInit ==
  ShaderInit /\ m_components = <<>> /\ DeclIdle /\ ImageIdle /\ BufferIdle /\ LaterIdle

WidgetEntitySpec == WidgetEntitySpecInit /\ [][WidgetEntityNext]_vars

(***************************************************************************)
(* Claims about GL::Shader (checked under ShaderSpec)                      *)
(***************************************************************************)
IsShaderStep(op) == sh_op' = op /\ vars' # vars

NativeCalls(calls, fn) == {i \in DOMAIN calls : calls[i].fn = fn}

\* C1: Create, called with or without a handle held, first deletes the handle held
\* (if any) and then requests a new one; it returns true iff glCreateShader gave a
\* non-zero handle, and after a false return the shader holds no handle.
C1_CreateContract ==
  [][IsShaderStep("Create") =>
       LET request == sh_calls'[Len(sh_calls')]
       IN  /\ sh_calls' = (IF m_shader # 0
                           THEN <<GLCall("glDeleteShader", m_shader, "", 0)>>
                           ELSE <<>>) \o <<request>>
           /\ request.fn = "glCreateShader"
           /\ sh_ret' \in {"true", "false"}
           /\ (sh_ret' = "true") <=> (request.n # 0)
           /\ (sh_ret' = "false") => (m_shader' = 0)
           /\ (sh_ret' = "true") => (m_shader' = request.n)]_vars

\* A failed Create on a shader that held a handle: the old handle was deleted, the
\* request made, and no handle is left.
C1_Witness ==
  /\ sh_op = "Create" /\ sh_ret = "false"
  /\ Len(sh_calls) = 2 /\ sh_calls[1].fn = "glDeleteShader"
  /\ m_shader = 0

\* C2: over any sequence of Create, Destroy and destructor calls every handle
\* obtained from glCreateShader is deleted exactly once: the driver never sees a
\* delete of a name that is not alive, the only name alive is the one held, none
\* is alive once the object is destructed; a Destroy without a handle makes no
\* native call and changes no state of the shader or the driver.
C2_DestroyIdempotent ==
  [][/\ ~glBadDelete'
     /\ glLive' = (IF m_shader' # 0 THEN {m_shader'} ELSE {})
     /\ (sh_pc' = "destructed" => glLive' = {})
     /\ (IsShaderStep("Destroy") /\ m_shader = 0) =>
           /\ sh_calls' = <<>>
           /\ UNCHANGED <<m_shader, m_shaderDevice, glLive, glCompiles, glStatus,
                          glInfoLog, glSource, glBadDelete>>]_vars

\* A second Destroy in a row, on a shader already destroyed.
C2_Witness ==
  /\ sh_op = "Destroy" /\ sh_life = "destroyed"
  /\ sh_calls = <<>> /\ glLive = {} /\ m_shader = 0

\* C3: Compile on a held handle returns true iff the native compile status is
\* success; on success *error is unchanged; on failure with an error pointer
\* *error has the info-log length and holds the log (empty when the length is 0);
\* on failure without an error pointer the log is not queried.
C3_CompileContract ==
  (sh_op = "Compile" /\ sh_pc = "run") =>
     LET status == glStatus[m_shader]
         log    == glInfoLog[m_shader]
         n      == InfoLogLength(log)
         logQueries == {i \in DOMAIN sh_calls :
                          \/ sh_calls[i].fn = "glGetShaderInfoLog"
                          \/ sh_calls[i].arg = "GL_INFO_LOG_LENGTH"}
     IN  /\ m_shader # 0
         /\ sh_ret = BoolRet(status)
         /\ status => (sh_errOut = sh_errIn /\ logQueries = {})
         /\ (~status /\ sh_errPtr) =>
               /\ Len(sh_errOut) = n
               /\ (n = 0 => sh_errOut = <<>>)
               /\ (n > 0 => sh_errOut = log \o <<0>>)
         /\ (~status /\ ~sh_errPtr) => logQueries = {}

\* A failed compile whose log is shorter than the caller's string: the string is
\* cut down to the log length.
C3_Witness ==
  /\ sh_op = "Compile" /\ sh_ret = "false" /\ sh_errPtr
  /\ Len(sh_errIn) = 4 /\ Len(sh_errOut) = 2

\* C4 as claimed: every handle is compiled exactly once between its creation and
\* its deletion: never a second time, and once by the time it is deleted.
C4_ExactlyOneCompile ==
  [][/\ \A h \in glLive' : glCompiles'[h] <= 1
     /\ \A i \in NativeCalls(sh_calls', "glDeleteShader") :
           glCompiles[sh_calls'[i].handle] = 1]_vars

\* C4 (amended): every Compile call that passes its assertion performs exactly one
\* glCompileShader, on the handle held, and no other operation performs one; the
\* wrapper keeps no count, so a handle is compiled as often as Compile is called.
C4_OneCompilePerCall ==
  [][LET compiles == NativeCalls(sh_calls', "glCompileShader")
     IN  IF IsShaderStep("Compile") /\ sh_pc' = "run"
         THEN /\ Cardinality(compiles) = 1
              /\ \A i \in compiles : sh_calls'[i].handle = m_shader
              /\ m_shader # 0
              /\ glCompiles'[m_shader] = glCompiles[m_shader] + 1
         ELSE /\ compiles = {}
              /\ \A h \in glLive \cap glLive' : glCompiles'[h] \in {glCompiles[h], 0}]_vars

\* A handle compiled twice and still held.
C4_Witness == m_shader # 0 /\ glCompiles[m_shader] = 2 /\ sh_op = "Compile"

\* C5: SetSource, SetBinarySource and Compile on a shader never created, whose
\* last Create failed, or destroyed fail their assertion and forward no native
\* call; after a successful Create and before Destroy the assertion holds and the
\* call is forwarded on the handle held.  No other operation asserts.
C5_HandleRequired ==
  /\ (sh_op \in {"SetSource", "SetBinarySource", "Compile"}) =>
        IF sh_life \in {"never", "createFailed", "destroyed"}
        THEN sh_pc = "aborted" /\ sh_calls = <<>> /\ m_shader = 0
        ELSE /\ sh_pc = "run" /\ m_shader # 0 /\ sh_calls # <<>>
             /\ \A i \in DOMAIN sh_calls : sh_calls[i].handle = m_shader
  /\ (sh_pc = "aborted") => (sh_op \in {"SetSource", "SetBinarySource", "Compile"})

\* SetSource after a Create that failed.
C5_Witness ==
  /\ sh_op = "SetSource" /\ sh_pc = "aborted" /\ sh_life = "createFailed"

(***************************************************************************)
(* Claims about VertexDeclaration (checked under DeclSpec)                 *)
(***************************************************************************)
Matches == {k \in DOMAIN m_components :
              /\ m_components[k].component = decl_argComponent
              /\ m_components[k].componentIndex = decl_argIndex}

FirstMatchReturned ==
  IF Matches = {} THEN decl_ret = 0
  ELSE decl_ret \in Matches /\ \A k \in Matches : decl_ret <= k

\* C6 as claimed: FindComponent returns the first matching record and null, not an
\* error, for every pair that no record has; HasComponent is true exactly when
\* FindComponent is non-null; GetComponentCount is the number of records.
C6_NullForEveryAbsentPair ==
  /\ (decl_op = "FindComponent") => (decl_pc = "run" /\ FirstMatchReturned)
  /\ (decl_op = "HasComponent") => (decl_pc = "run" /\ (decl_has <=> Matches # {}))
  /\ (decl_op = "GetComponentCount") => (decl_ret = Len(m_components))

\* C6 (amended): FindComponent and HasComponent require index 0 or the userdata
\* component, and fail their assertion otherwise; within that precondition
\* FindComponent returns the first matching record and null for every pair that
\* no record has, and HasComponent is true exactly when that is non-null;
\* GetComponentCount is the number of records.
C6_FindWithinPrecondition ==
  /\ (decl_op \in {"FindComponent", "HasComponent"}) =>
        ((decl_pc = "aborted") <=>
           ~(decl_argIndex = 0 \/ decl_argComponent = "VertexComponent_Userdata"))
  /\ (decl_op = "FindComponent" /\ decl_pc = "run") => FirstMatchReturned
  /\ (decl_op = "HasComponent" /\ decl_pc = "run") => (decl_has <=> Matches # {})
  /\ (decl_op = "GetComponentCount") => (decl_pc = "run" /\ decl_ret = Len(m_components))
  /\ (decl_pc = "aborted") => (decl_op \in {"FindComponent", "HasComponent"})

\* Two records carry the pair asked for and the first of them is returned, from a
\* declaration whose first record is another one.
C6_Witness ==
  /\ decl_op = "FindComponent" /\ decl_pc = "run"
  /\ Cardinality(Matches) = 2 /\ decl_ret = 2

(***************************************************************************)
(* Claims about Vk::Image (checked under ImageSpec)                        *)
(***************************************************************************)
IsImageStep(op) == img_op' = op /\ vars' # vars

\* C7: BindImageMemory returns true iff the native vkBindImageMemory returns
\* VK_SUCCESS; after the call the stored last error code is the result of that
\* native call; a failed bind leaves handle and owner unchanged.
C7_BindResult ==
  [][(IsImageStep("BindImageMemory") /\ img_pc' = "run") =>
       /\ img_calls' # <<>>
       /\ img_calls'[1].fn = "vkBindImageMemory"
       /\ img_ret' \in {"true", "false"}
       /\ (img_ret' = "true") <=> (img_calls'[1].res = "VK_SUCCESS")
       /\ m_lastErrorCode' = img_calls'[1].res
       /\ (img_ret' = "false") => UNCHANGED <<m_handle, m_imageDevice>>]_vars

\* A bind of a created image that the driver refuses.
C7_Witness ==
  /\ img_op = "BindImageMemory" /\ img_ret = "false" /\ img_pc = "run"
  /\ m_handle # 0 /\ m_lastErrorCode = "VK_ERROR_OUT_OF_DEVICE_MEMORY"

\* C8 as claimed: over any sequence of Create, BindImageMemory,
\* GetMemoryRequirements and Destroy no second native bind is issued for the same
\* image handle and none is issued on a null handle.
C8_BoundOncePerImage ==
  /\ \A h \in Images : vkBinds[h] <= 1
  /\ ~vkNullBind

\* C8 (amended): the wrapper forwards every BindImageMemory call: each call that
\* returns issues exactly one native bind, carrying the handle held at that time
\* (a handle bound before, or the null handle), and no other operation issues a
\* bind; only GetMemoryRequirements checks validity: on an image without a handle
\* its assertion fails and no native call is made.
C8_BindForwardsEveryCall ==
  [][LET binds == {i \in DOMAIN img_calls' : img_calls'[i].fn = "vkBindImageMemory"}
     IN  IF IsImageStep("BindImageMemory") /\ img_pc' = "run"
         THEN /\ Cardinality(binds) = 1
              /\ \A i \in binds : img_calls'[i].handle = m_handle
              /\ (m_handle # 0) => (vkBinds'[m_handle] = vkBinds[m_handle] + 1)
              /\ (m_handle = 0) => vkNullBind'
         ELSE /\ binds = {}
              /\ vkBinds' = vkBinds \/ img_op' \in {"Create", "Destroy"}
              /\ IsImageStep("GetMemoryRequirements") =>
                    /\ (img_pc' = "aborted") <=> (m_handle = 0)
                    /\ (m_handle = 0) => (img_calls' = <<>>)
                    /\ (m_handle # 0) => (Len(img_calls') = 1 /\
                                          img_calls'[1].handle = m_handle)]_vars

\* The same image handle bound a second time.
C8_Witness ==
  /\ img_op = "BindImageMemory" /\ img_pc = "run"
  /\ m_handle # 0 /\ vkBinds[m_handle] = 2

(***************************************************************************)
(* Claims about Buffer and NzVertexBuffer (checked under BufferSpec)       *)
(***************************************************************************)
IsBufferStep(ops) == buf_op' \in ops /\ vars' # vars

MapOps == {"Map", "VertexBuffer::Map"}
UnmapOps == {"Unmap", "VertexBuffer::Unmap"}

\* C9: a Buffer is valid exactly when it owns an implementation, and on a buffer
\* with no implementation Map, Fill, GetStorage and HasStorage are rejected
\* rather than forwarded to the absent implementation.
C9_NoImplRejectsAll ==
  /\ (buf_op = "IsValid") => (buf_ret = BoolRet(m_impl # 0))
  /\ (m_impl = 0 /\ buf_op \in {"Map", "Fill", "GetStorage", "HasStorage"}) =>
        (buf_rejected /\ ~buf_forwarded /\ buf_pc \in {"run", "aborted"})

\* C10: at most one mapped pointer is live at any time; a Map while a mapping is
\* live yields no second pointer; an Unmap without a live mapping is rejected;
\* a Map of a range inside the buffer (inside the window, for a vertex buffer)
\* succeeds whenever no mapping is live, so also after Map and Unmap.
C10_SingleMapping ==
  [][/\ Cardinality(buf_livePtrs') <= 1
     /\ impl_mapped' <=> (buf_livePtrs' # {})
     /\ (IsBufferStep(MapOps) /\ impl_mapped) =>
           /\ buf_ptr' = 0 /\ buf_rejected'
           /\ UNCHANGED <<buf_livePtrs, impl_mapped>>
     /\ (IsBufferStep(UnmapOps) /\ ~impl_mapped) =>
           /\ buf_rejected'
           /\ UNCHANGED <<buf_livePtrs, impl_mapped>>
     /\ (IsBufferStep(UnmapOps) /\ impl_mapped) =>
           /\ ~buf_rejected' /\ ~impl_mapped'
     /\ (IsBufferStep(MapOps) /\ ~impl_mapped /\ m_impl # 0) =>
           LET start == IF buf_op' = "Map" THEN 0 ELSE m_startOffset
               end   == IF buf_op' = "Map" THEN m_size ELSE m_endOffset
               inside == start + buf_argOffset' + buf_argSize' <= end
           IN  /\ inside => (buf_ptr' = start + buf_argOffset' + 1 /\
                             buf_livePtrs' = {buf_ptr'})
               /\ ~inside => (buf_ptr' = 0 /\ buf_livePtrs' = {})]_vars

\* Map, Unmap, Map: a pointer is live again after an earlier mapping was ended.
C10_Witness ==
  /\ buf_op \in MapOps /\ buf_cycle = "remapped"
  /\ buf_ptr # 0 /\ buf_livePtrs = {buf_ptr}

(***************************************************************************)
(* Claims about NzVertexBuffer (checked under VertexBufferSpec)            *)
(***************************************************************************)
VertexOps == {"FillVertices", "MapVertices"}

\* C11: a vertex buffer over the window [start, end) with a declaration of
\* stride S holds (end - start) / S vertices and its window is a whole number of
\* vertices (stride 16 over 160 bytes: 10 vertices); a construction whose window
\* length is not a multiple of S fails; FillVertices and MapVertices with a
\* vertex range reaching past the vertex count fail and touch nothing, and
\* within the count they act on the byte range the stride gives.  The count
\* follows the stride through every construction and SetVertexDeclaration.
C11_VertexCountAndRange ==
  [][ /\ VertexCount(0, 160, 16) = 10
      /\ WindowFitsStride(0, 160, 16) /\ ~WindowFitsStride(0, 161, 16)
      /\ vb_state' = "constructed" =>
           /\ vb_stride' \in Strides
           /\ (m_endOffset' - m_startOffset') % vb_stride' = 0
           /\ m_vertexCount' * vb_stride' = m_endOffset' - m_startOffset'
      /\ IsBufferStep({"VertexBuffer"}) =>
           IF (buf_argSize' - buf_argOffset') % vb_argStride' # 0
           THEN vb_state' = "failed" /\ buf_rejected'
           ELSE /\ vb_state' = "constructed"
                /\ m_startOffset' = buf_argOffset' /\ m_endOffset' = buf_argSize'
                /\ vb_stride' = vb_argStride'
                /\ m_vertexCount' = (buf_argSize' - buf_argOffset') \div vb_argStride'
      /\ IsBufferStep({"VertexBuffer(length)"}) =>
           /\ vb_state' = "constructed" /\ vb_stride' = vb_argStride'
           /\ m_startOffset' = 0 /\ m_endOffset' = buf_argSize' * vb_argStride'
           /\ m_vertexCount' = buf_argSize'
      /\ IsBufferStep({"SetVertexDeclaration"}) =>
           IF (m_endOffset - m_startOffset) % buf_argOffset' # 0
           THEN buf_rejected' /\ UNCHANGED <<vb_stride, m_vertexCount>>
           ELSE /\ vb_stride' = buf_argOffset'
                /\ m_vertexCount' = (m_endOffset - m_startOffset) \div buf_argOffset'
      /\ IsBufferStep({"GetVertexCount"}) =>
           buf_ret' = (m_endOffset - m_startOffset) \div vb_stride
      /\ IsBufferStep(VertexOps) /\ buf_argOffset' + buf_argSize' > m_vertexCount =>
           /\ buf_rejected' /\ ~buf_forwarded'
           /\ buf_ret' = "false" /\ buf_ptr' = 0
           /\ UNCHANGED <<impl_bytes, impl_mapped, buf_livePtrs>>
      /\ IsBufferStep(VertexOps) /\ ~buf_rejected' =>
           /\ buf_argOffset' + buf_argSize' <= m_vertexCount
           /\ m_startOffset + (buf_argOffset' + buf_argSize') * vb_stride <= m_endOffset
           /\ buf_op' = "MapVertices" =>
                buf_ptr' = m_startOffset + buf_argOffset' * vb_stride + 1
           /\ buf_op' = "FillVertices" =>
                \A i \in 1..m_size :
                  (impl_bytes'[i] # impl_bytes[i]) =>
                    /\ i > m_startOffset + buf_argOffset' * vb_stride
                    /\ i <= m_startOffset + (buf_argOffset' + buf_argSize') * vb_stride
    ]_vars

\* A vertex buffer of one vertex of stride 2 has refused a MapVertices of one
\* vertex whose range ends past the count.
C11_Witness ==
  /\ vb_state = "constructed" /\ vb_stride = 2 /\ m_vertexCount = 1
  /\ m_endOffset - m_startOffset = 2
  /\ m_impl # 0
  /\ buf_op = "MapVertices" /\ buf_rejected
  /\ buf_argSize = 1
  /\ buf_argOffset + buf_argSize > m_vertexCount

(***************************************************************************)
(* Claims about Vk::DeviceMemory (checked under DeviceMemorySpec)          *)
(***************************************************************************)
IsMemoryStep(ops, obj) == mem_op' \in ops /\ mem_obj' = obj /\ vars' # vars

\* C12: in every state reached by construction, Create, Map, Unmap, Destroy,
\* destruction and move-construction, an object's mapped pointer is non-null
\* only while the driver holds its allocation mapped, that is between a
\* successful Map and the following Unmap or destruction: the pointer is null
\* after construction, after a failed Map, after Unmap and after Destroy; it
\* becomes non-null only by a successful Map on the object or by a
\* move of a mapped object into it, which leaves the source's pointer null;
\* GetMappedPointer reports exactly that pointer.
C12_MappedPointerWindow ==
  [][ \A obj \in MemObjects :
        /\ m_mappedPtr'[obj] # 0 =>
             /\ mem_state'[obj] = "live"
             /\ mem_handle'[obj] \in vkMemMapped' \cap vkMemLive'
             /\ \A other \in MemObjects \ {obj} : mem_handle'[other] # mem_handle'[obj]
        /\ /\ IsMemoryStep({"DeviceMemory", "Unmap", "Destroy",
                            "~DeviceMemory"}, obj)
           /\ mem_pc' = "run"
           => m_mappedPtr'[obj] = 0
        /\ IsMemoryStep({"Map"}, obj) /\ mem_pc' = "run" =>
             /\ mem_ret' = "false" => m_mappedPtr'[obj] = 0
             /\ mem_ret' = "true" => m_mappedPtr'[obj] # 0
        /\ m_mappedPtr[obj] = 0 /\ m_mappedPtr'[obj] # 0 =>
             \/ IsMemoryStep({"Map"}, obj) /\ mem_ret' = "true"
             \/ /\ IsMemoryStep({"DeviceMemory(DeviceMemory&&)"}, obj)
                /\ \E memory \in MemObjects \ {obj} :
                     m_mappedPtr[memory] = m_mappedPtr'[obj] /\ m_mappedPtr'[memory] = 0
        /\ IsMemoryStep({"GetMappedPointer"}, obj) =>
             /\ mem_ret' = m_mappedPtr[obj]
             /\ mem_ret' # 0 => mem_handle[obj] \in vkMemMapped
    ]_vars

(***************************************************************************)
(* Claims about Vk::Instance (checked under InstanceSpec)                  *)
(***************************************************************************)
IsInstanceStep(op) == inst_op' = op /\ vars' # vars

\* C13: Destroy makes the native destroy call exactly when an instance is held,
\* so of two Destroy calls in succession only the first makes it; after any
\* Destroy IsValid() is false and every instance-level function pointer is
\* null; a failed Create leaves IsValid() false, a successful one makes it true;
\* the loader never gets a destroy call for an instance that is not alive.
C13_DestroyIdempotent ==
  [][ /\ IsInstanceStep("Destroy") =>
           /\ Cardinality(NativeCalls(inst_calls', "vkDestroyInstance"))
                = IF m_instance # 0 THEN 1 ELSE 0
           /\ inst_op = "Destroy" => inst_calls' = <<>>
           /\ m_instance' = 0
           /\ \A f \in InstanceFunctions : ~inst_fn'[f]
      /\ IsInstanceStep("IsValid") /\ inst_op = "Destroy" => inst_ret' = "false"
      /\ IsInstanceStep("IsValid") /\ inst_op = "Create" => inst_ret' = inst_ret
      /\ IsInstanceStep("Create") =>
           /\ inst_ret' = "false" => m_instance' = 0
           /\ inst_ret' = "true" =>
                m_instance' # 0 /\ \A f \in CoreFunctions : inst_fn'[f]
      /\ ~vkInstBadDestroy'
    ]_vars

\* Destroy has been called on an instance it had already destroyed: the
\* instance was created, destroyed with the native call, and the last Destroy
\* made no call.
C13_Witness ==
  /\ inst_op = "Destroy" /\ inst_calls = <<>>
  /\ inst_lastErrorCode = "VK_SUCCESS"
  /\ m_loadedExtensions # {}
  /\ m_instance = 0 /\ vkInstances = {}
  /\ \A f \in InstanceFunctions : ~inst_fn[f]

(***************************************************************************)
(* Claims about Unicode (checked under UnicodeSpec)                        *)
(***************************************************************************)
UpperLetters == 65..90
LowerLetters == 97..122

\* The upper case and the lower case of a character as ASCII defines them.
AsciiUpper(c) == IF c \in LowerLetters THEN c - 32 ELSE c

AsciiLower(c) == IF c \in UpperLetters THEN c + 32 ELSE c

\* C14: GetTitlecase(c) is GetUppercase(c) for every character; GetUppercase
\* maps 'a'..'z' to 'A'..'Z', GetLowercase maps 'A'..'Z' to 'a'..'z', and both
\* leave every other character as it is; both are idempotent, and
\* GetLowercase(GetUppercase(c)) = c for every lower-case letter c.
C14_CaseMappings ==
  /\ uni_op = "GetUppercase" =>
       /\ uni_ret = AsciiUpper(uni_character)
       /\ GetUppercaseOf(uni_ret) = uni_ret
       /\ uni_character \in LowerLetters => GetLowercaseOf(uni_ret) = uni_character
  /\ uni_op = "GetTitlecase" =>
       /\ uni_ret = AsciiUpper(uni_character)
       /\ uni_ret = GetUppercaseOf(uni_character)
  /\ uni_op = "GetLowercase" =>
       /\ uni_ret = AsciiLower(uni_character)
       /\ GetLowercaseOf(uni_ret) = uni_ret

\* GetUppercase has been called on 'z', the last letter of its range.
C14_Witness ==
  uni_op = "GetUppercase" /\ uni_character = 122 /\ uni_ret = 90

\* C18: GetCategory gives Category_Number_DecimalDigit for exactly the
\* characters '0'..'9', so for no letter, and Category_NoCategory for every
\* character above 0x7F.
C18_DigitsOnly ==
  uni_op = "GetCategory" =>
    /\ uni_category = "Category_Number_DecimalDigit" <=> uni_character \in 48..57
    /\ uni_character > 127 => uni_category = "Category_NoCategory"

(***************************************************************************)
(* Claims about BaseWidget (checked under WidgetSpec, the one about the    *)
(* entities under WidgetEntitySpec, the one about the tree under           *)
(* WidgetTreeSpec)                                                         *)
(***************************************************************************)
IsWidgetStep(op) == w_op' = op /\ vars' # vars

ChildWidgets == Widgets \ {CanvasWidget}

\* C15: a widget constructed with a parent is registered to its canvas exactly
\* when it is visible, whatever Show calls it and its ancestors received, so
\* RegisterToCanvas never runs on a registered widget (no Show and no
\* construction stops on its assertion); Show with the current visibility
\* changes nothing; HasFocus() is false on a hidden widget and a hidden widget
\* never owns the keyboard.
C15_RegisteredIffVisible ==
  [][ /\ \A w \in ChildWidgets :
           w_state'[w] = "alive" =>
             /\ w_registered'[w] <=> m_visible'[w]
             /\ w_registered'[w] <=> w \in cv_widgets'
      /\ IsWidgetStep("Show") \/ IsWidgetStep("Add") \/ IsWidgetStep("BaseWidget") =>
           w_pc' = "run"
      /\ IsWidgetStep("Show") /\ m_visible[w_arg'] = w_flag' =>
           UNCHANGED <<w_state, m_visible, w_registered, m_widgetParent, m_children,
                       m_entities, m_backgroundEntity, cv_widgets, cv_keyboardOwner>>
      /\ IsWidgetStep("HasFocus") /\ w_arg' \in ChildWidgets /\ ~m_visible[w_arg'] =>
           w_ret' = "false"
      /\ cv_keyboardOwner' \in ChildWidgets => m_visible'[cv_keyboardOwner']
    ]_vars

\* Show(false) on the visible canvas has hidden and unregistered a widget owned
\* by a child of the canvas.
C15_Witness ==
  /\ w_op = "Show" /\ w_arg = CanvasWidget /\ ~w_flag /\ w_wasVisible
  /\ w_pc = "run"
  /\ \E p \in ChildWidgets, w \in ChildWidgets :
       /\ Alive(p) /\ Alive(w)
       /\ \E i \in DOMAIN m_children[p] : m_children[p][i] = w
       /\ ~m_visible[w] /\ ~w_registered[w] /\ w \notin cv_widgets

\* C16: Show leaves the isEnabled flag of every entity as it was, although the
\* entities' slots run during the call; after a Show every entity of a hidden
\* widget is disabled, and in a widget that Show made visible exactly the
\* entities whose flag was set are enabled, the others staying disabled; an
\* entity enabled while its widget is hidden ends disabled with its flag set.
C16_ShowKeepsFlags ==
  [][ /\ IsWidgetStep("Show") /\ w_pc' = "run" =>
           \A x \in Widgets :
             Alive(x) =>
               /\ DOMAIN m_entities'[x] = DOMAIN m_entities[x]
               /\ \A i \in DOMAIN m_entities[x] :
                    /\ m_entities'[x][i].isEnabled = m_entities[x][i].isEnabled
                    /\ ~m_visible'[x] => ~m_entities'[x][i].enabled
                    /\ m_visible'[x] /\ ~m_visible[x] =>
                         (m_entities'[x][i].enabled <=> m_entities[x][i].isEnabled)
      /\ IsWidgetStep("Entity::Enable") /\ w_flag' /\ ~m_visible[w_arg'] =>
           m_entities'[w_arg'][w_ret'] = [enabled |-> FALSE, isEnabled |-> TRUE]
    ]_vars

\* Show(true) has made a hidden widget visible: of its two entities the one
\* with the flag set is enabled again, the one the user disabled is not.
C16_Witness ==
  /\ w_op = "Show" /\ w_flag /\ ~w_wasVisible /\ w_pc = "run"
  /\ w_arg \in ChildWidgets /\ Alive(w_arg) /\ m_visible[w_arg]
  /\ Len(m_entities[w_arg]) = 2
  /\ \E i, j \in DOMAIN m_entities[w_arg] :
       /\ m_entities[w_arg][i] = [enabled |-> TRUE, isEnabled |-> TRUE]
       /\ m_entities[w_arg][j] = [enabled |-> FALSE, isEnabled |-> FALSE]

\* C17: every widget other than the canvas that a children list holds is held
\* in the children list of the widget recorded as its parent, whatever
\* SetParent calls were made, so Destroy finds it there and the assertion of
\* DestroyChild never fails.
C17_HeldByRecordedParent ==
  /\ \A w \in ChildWidgets :
       Alive(w) /\ Held(w) =>
         /\ Alive(m_widgetParent[w])
         /\ \E i \in DOMAIN m_children[m_widgetParent[w]] :
              m_children[m_widgetParent[w]][i] = w
  /\ w_op = "Destroy" /\ w_arg \in ChildWidgets /\ Alive(w_arg) /\ Held(w_arg) =>
       w_pc = "run"

====
